---- MODULE Spec2Model ----
(***************************************************************************)
(* Placement store, interaction controller and page views of the PDF       *)
(* signer (src/src/store/appStore.ts, src/src/components/PdfViewer.tsx).   *)
(*                                                                         *)
(* Numbers.  Percent rectangles are JavaScript doubles in the source.      *)
(* Here every percentage is an exact fixed-point integer with PerCent      *)
(* units to one percent, and the display surfaces and pointer positions    *)
(* are chosen so that every pixel <-> percent conversion is exact.         *)
(* Pointer positions are pixels relative to the page canvas' bounding box  *)
(* (canvasRect.left = canvasRect.top = 0).                                 *)
(***************************************************************************)
EXTENDS Integers, Sequences, FiniteSets, TLC

VARIABLES store, nextId, renders, wraps, overlay, selected, surface,
          session, press, gest, tasks, panel, last

vars == <<store, nextId, renders, wraps, overlay, selected, surface,
          session, press, gest, tasks, panel, last>>

(***************************************************************************)
(* Bounds of the model.                                                    *)
(***************************************************************************)
MaxEdits == 2        \* placements created plus gestures that move or resize, in one run of Spec
MaxListEdits == 3    \* the same in one run of ListSpec
MaxIds == 1          \* placements ever created in one run of StoreSpec
MaxPending == 1      \* page renders in flight at the same time
MaxExportPlacements == 2      \* placements ever created in one run of ExportSpec

PerCent == 6 * 10    \* fixed-point units in one percent
Full == 100 * PerCent

Min(a, b) == IF a <= b THEN a ELSE b
Max(a, b) == IF a >= b THEN a ELSE b
Abs(a) == IF a < 0 THEN 0 - a ELSE a

(***************************************************************************)
(* Documents: document d has PageCount(d) pages.  0 stands for null.       *)
(***************************************************************************)
Docs == {1, 2}
PageCount(d) == d
NoFile == 0

(***************************************************************************)
(* JavaScript numbers used as page index, kept exact as num/den.           *)
(***************************************************************************)
Num(k) == [num |-> k, den |-> 1]
NumberIsInteger(n) == n.num % n.den = 0
PageIndexInputs == {Num(-1), Num(0), Num(2), [num |-> 1, den |-> 2]}

(***************************************************************************)
(* Data URLs: "data:" type [";base64"] "," body.  The body is a sequence   *)
(* of characters; the characters used stand for the base64 text of a PNG   *)
(* signature ("iVBOR"), a JPEG signature ("/9j/"), a WebP (RIFF) signature *)
(* ("UklGR"), base64 text that is no image ("AAAA") and a character        *)
(* outside the base64 alphabet ("#").                                      *)
(***************************************************************************)
Base64Chars == {"iVBOR", "/9j/", "UklGR", "AAAA"}
DataURL(type, b64, body) == [type |-> type, base64 |-> b64, body |-> body]
PngURL == DataURL("image/png", TRUE, <<"iVBOR">>)
JpegURL == DataURL("image/jpeg", TRUE, <<"/9j/">>)
WebpURL == DataURL("image/webp", TRUE, <<"UklGR">>)
FakePngURL == DataURL("image/png", TRUE, <<"AAAA">>)
GifURL == DataURL("image/gif", TRUE, <<"AAAA">>)
EmptyPngURL == DataURL("image/png", TRUE, <<>>)
BadCharPngURL == DataURL("image/png", TRUE, <<"iVBOR", "#">>)
PlainPngURL == DataURL("image/png", FALSE, <<"iVBOR">>)
DataURLInputs == {PngURL, JpegURL, WebpURL, FakePngURL, GifURL, EmptyPngURL,
                  BadCharPngURL, PlainPngURL}
NoSignature == DataURL("", FALSE, <<>>)

\* The pattern without the list of types: a faulty variant.
isValidDataURLAnyType(dataUrl) ==
    /\ dataUrl.base64
    /\ Len(dataUrl.body) >= 1
    /\ \A i \in 1..Len(dataUrl.body) : dataUrl.body[i] \in Base64Chars

isValidDataURL(dataUrl) ==
    /\ dataUrl.type \in {"image/png", "image/jpeg", "image/jpg", "image/webp"}
    /\ dataUrl.base64
    /\ Len(dataUrl.body) >= 1
    /\ \A i \in 1..Len(dataUrl.body) : dataUrl.body[i] \in Base64Chars

(***************************************************************************)
(* What the export pipeline can embed: PNG first, JPEG as the fallback.    *)
(* The embedders decode the base64 body and look at the bytes.             *)
(***************************************************************************)
embedPng(dataUrl) == dataUrl.base64 /\ Len(dataUrl.body) >= 1 /\ dataUrl.body[1] = "iVBOR"
embedJpg(dataUrl) == dataUrl.base64 /\ Len(dataUrl.body) >= 1 /\ dataUrl.body[1] = "/9j/"
canEmbed(dataUrl) == embedPng(dataUrl) \/ embedJpg(dataUrl)

(***************************************************************************)
(* Rectangles.                                                             *)
(***************************************************************************)
Rect(x, y, w, h) == [x |-> x, y |-> y, w |-> w, h |-> h]
ValidRect(r) ==
    /\ 0 <= r.x /\ 0 <= r.y
    /\ r.w > 0 /\ r.h > 0
    /\ r.x + r.w <= Full
    /\ r.y + r.h <= Full
RectInputs ==
    { Rect(10 * PerCent, 20 * PerCent, 15 * PerCent, 5 * PerCent),
      Rect(0 - PerCent, 20 * PerCent, 15 * PerCent, 5 * PerCent),
      Rect(10 * PerCent, 0 - PerCent, 15 * PerCent, 5 * PerCent),
      Rect(10 * PerCent, 20 * PerCent, 0, 5 * PerCent),
      Rect(10 * PerCent, 20 * PerCent, 15 * PerCent, 0),
      Rect(60 * PerCent, 20 * PerCent, 60 * PerCent, 5 * PerCent),
      Rect(10 * PerCent, 60 * PerCent, 15 * PerCent, 60 * PerCent),
      Rect(10 * PerCent, 20 * PerCent, 101 * PerCent, 5 * PerCent) }

(***************************************************************************)
(* The store (zustand).  Every operation maps a store state to the next.   *)
(***************************************************************************)
NoPages == [doc |-> NoFile, n |-> 0]
InitStore ==
    [pdfFile |-> NoFile, hasDoc |-> FALSE, pages |-> NoPages,
     placements |-> <<>>, currentSignature |-> NoSignature]

\* loadFile without the reset of the placement list: a faulty variant.
loadFileKeep(s, f) ==
    [s EXCEPT !.pdfFile = f, !.hasDoc = TRUE, !.pages = NoPages]

loadFile(s, f) ==
    [s EXCEPT !.pdfFile = f, !.hasDoc = TRUE, !.pages = NoPages, !.placements = <<>>]

clearAll(s) ==
    [s EXCEPT !.pdfFile = NoFile, !.hasDoc = FALSE, !.pages = NoPages,
              !.placements = <<>>, !.currentSignature = NoSignature]

setPages(s, d) == [s EXCEPT !.pages = [doc |-> d, n |-> PageCount(d)]]

\* setCurrentSignature that also restamps the placed images: a faulty variant.
setCurrentSignatureRestamp(s, d) ==
    IF d # NoSignature /\ ~isValidDataURL(d) THEN s
    ELSE [s EXCEPT !.currentSignature = d,
                   !.placements = [i \in 1..Len(@) |-> [@[i] EXCEPT !.imageDataUrl = d]]]

setCurrentSignature(s, d) ==
    IF d # NoSignature /\ ~isValidDataURL(d) THEN s
    ELSE [s EXCEPT !.currentSignature = d]

addPlacementAccepts(pageIndex, rect, imageDataUrl) ==
    /\ isValidDataURL(imageDataUrl)
    /\ ~(pageIndex.num < 0 \/ ~NumberIsInteger(pageIndex))
    /\ ~(rect.w <= 0 \/ rect.h <= 0 \/ rect.x < 0 \/ rect.y < 0 \/ rect.x > Full
         \/ rect.y > Full \/ rect.w > Full \/ rect.h > Full)

\* An id taken from the length of the list instead of a fresh one: a faulty
\* variant (the id of a removed placement comes back).
addPlacementCounted(s, id, pageIndex, rect, imageDataUrl) ==
    IF ~addPlacementAccepts(pageIndex, rect, imageDataUrl) THEN s
    ELSE [s EXCEPT !.placements =
             Append(@, [id |-> Len(@) + 1, pageIndex |-> pageIndex, rect |-> rect,
                        imageDataUrl |-> imageDataUrl])]

addPlacement(s, id, pageIndex, rect, imageDataUrl) ==
    IF ~addPlacementAccepts(pageIndex, rect, imageDataUrl) THEN s
    ELSE [s EXCEPT !.placements =
             Append(@, [id |-> id, pageIndex |-> pageIndex, rect |-> rect,
                        imageDataUrl |-> imageDataUrl])]

\* An update that puts the placement back when the list does not hold it:
\* a faulty variant.
updatePlacementUpsert(s, id, rect) ==
    IF \E i \in 1..Len(s.placements) : s.placements[i].id = id
    THEN [s EXCEPT !.placements =
            [i \in 1..Len(@) |-> IF @[i].id = id THEN [@[i] EXCEPT !.rect = rect] ELSE @[i]]]
    ELSE [s EXCEPT !.placements =
            Append(@, [id |-> id, pageIndex |-> Num(0), rect |-> rect,
                       imageDataUrl |-> PngURL])]

updatePlacement(s, id, rect) ==
    [s EXCEPT !.placements =
        [i \in 1..Len(@) |-> IF @[i].id = id THEN [@[i] EXCEPT !.rect = rect] ELSE @[i]]]

RECURSIVE Filter(_, _)
Filter(seq, keep) ==
    IF seq = <<>> THEN <<>>
    ELSE IF Head(seq).id \in keep THEN <<Head(seq)>> \o Filter(Tail(seq), keep)
         ELSE Filter(Tail(seq), keep)

Ids(seq) == {seq[i].id : i \in 1..Len(seq)}

\* A faulty variant of removePlacement: drops the head of the list.
removePlacementFirst(s, id) ==
    [s EXCEPT !.placements = IF @ = <<>> THEN @ ELSE Tail(@)]

removePlacement(s, id) ==
    [s EXCEPT !.placements = Filter(@, Ids(@) \ {id})]

\* The list emptied and the signature kept: a faulty variant.
clearAllPlacementsOnly(s) == [s EXCEPT !.placements = <<>>]

clearAllPlacements(s) ==
    [s EXCEPT !.placements = <<>>, !.currentSignature = NoSignature]

PlacementOf(s, id) == CHOOSE p \in {s.placements[i] : i \in 1..Len(s.placements)} : p.id = id

(***************************************************************************)
(* Display surfaces: the bounding box of every page canvas and the window  *)
(* width.  220/width and 60/height of the default signature size, and      *)
(* every pointer displacement, are exact in fixed point on these sizes.    *)
(***************************************************************************)
Surfaces ==
    { [width |-> 1000, height |-> 3000, innerWidth |-> 1280],
      [width |-> 500, height |-> 1000, innerWidth |-> 500],
      [width |-> 200, height |-> 1000, innerWidth |-> 360] }
InitSurface == [width |-> 1000, height |-> 3000, innerWidth |-> 1280]

ToPercent(px, size) == (px * Full) \div size

(***************************************************************************)
(* The two effects of PdfViewer that follow a store change.                *)
(*   page effect, deps [pdfFile, currentSignature]: clears the container   *)
(*     when no file is loaded, else starts an asynchronous render;         *)
(*   overlay effect, deps [placements]: rebuilds every overlay image on    *)
(*     the page wraps that exist, unselected and with hidden handles.      *)
(***************************************************************************)
NoWraps == [doc |-> NoFile, sig |-> NoSignature]
WrapCount(w) == IF w.doc = NoFile THEN 0 ELSE PageCount(w.doc)
NoOverlay == [ids |-> {}, surf |-> InitSurface]

pageEffectRuns(new, fileChanged) ==
    fileChanged \/ new.currentSignature # store.currentSignature

containerCleared(new, fileChanged) ==
    pageEffectRuns(new, fileChanged) /\ new.pdfFile = NoFile

renderStarts(new, fileChanged) ==
    pageEffectRuns(new, fileChanged) /\ new.pdfFile # NoFile

pageEffectRenders(new, fileChanged) ==
    IF renderStarts(new, fileChanged)
    THEN Append(renders, [doc |-> new.pdfFile, sig |-> new.currentSignature])
    ELSE renders

pageEffectWraps(new, fileChanged) ==
    IF containerCleared(new, fileChanged) THEN NoWraps ELSE wraps

overlayEffect(pl, w, surf) ==
    [ids |-> {pl[i].id : i \in {j \in 1..Len(pl) :
                 \E k \in 0..(WrapCount(w) - 1) : pl[j].pageIndex = Num(k)}},
     surf |-> IF WrapCount(w) = 0 \/ pl = <<>> THEN InitSurface ELSE surf]

viewOverlay(new, fileChanged, plChanged) ==
    IF plChanged
    THEN overlayEffect(new.placements, pageEffectWraps(new, fileChanged), surface)
    ELSE IF containerCleared(new, fileChanged) THEN NoOverlay ELSE overlay

viewSelected(new, fileChanged, plChanged, sel) ==
    IF plChanged \/ containerCleared(new, fileChanged) THEN {} ELSE sel

(***************************************************************************)
(* In-flight sessions.  A session is the set of document-level listeners   *)
(* installed by startDrag / startResize together with their closure; press *)
(* is the element the pointer went down on and the closure state of its    *)
(* touch listeners.                                                        *)
(* detached: the img of the closure was replaced by the overlay effect;    *)
(* wrapGone: the page wrap of the closure was removed from the container.  *)
(***************************************************************************)
NoSession == [kind |-> "none"]
Other == [op |-> "other"]
NoPress == [on |-> "none"]

\* the signature panel's settings of the background removal and its copy of
\* the uploaded image (NoSignature stands for null)
InitPanel ==
    [removeBackground |-> TRUE, backgroundThreshold |-> 230,
     originalImageData |-> NoSignature]
\* The closure of the image a second finger went down on (pinch): the same
\* element as the pressed one, or the image that replaced it.
NoPinch == [on |-> FALSE, same |-> FALSE, detached |-> FALSE,
            initialRect |-> [x |-> 0, y |-> 0, w |-> 0, h |-> 0]]

markSession(se, imgGone, wrapsGone) ==
    IF se.kind = "none" THEN se
    ELSE [se EXCEPT !.detached = @ \/ imgGone \/ wrapsGone, !.wrapGone = @ \/ wrapsGone]

markPress(t, imgGone, wrapsGone) ==
    IF t.on = "none" THEN t
    ELSE [t EXCEPT !.detached = @ \/ imgGone \/ wrapsGone,
                   !.pinch = IF @.on
                             THEN [@ EXCEPT !.detached = @ \/ imgGone \/ wrapsGone]
                             ELSE @]

(***************************************************************************)
(* gest observes the current (or last) pointer gesture on a placement:     *)
(* where it started, whether every sample stayed within the drag           *)
(* threshold of the start point, whether a sample was 8 or more pixels     *)
(* away from it, and whether it has issued an update call (updates is 0    *)
(* or 1).  n counts the gestures of the run that issued an update;         *)
(* switched tells that the document was switched or the session cleared    *)
(* while the pointer was down.                                             *)
(***************************************************************************)
IdleGest ==
    [phase |-> "idle", n |-> 0, input |-> "none", target |-> "none", inZone |-> FALSE,
     id |-> 0, wasSelected |-> FALSE, sx |-> 0, sy |-> 0,
     within |-> TRUE, reach8 |-> FALSE, updates |-> 0, switched |-> FALSE]

Init ==
    /\ store = InitStore
    /\ nextId = 1
    /\ renders = <<>>
    /\ wraps = NoWraps
    /\ overlay = NoOverlay
    /\ selected = {}
    /\ surface \in Surfaces
    /\ session = NoSession
    /\ press = NoPress
    /\ gest = IdleGest
    /\ tasks = <<>>
    /\ panel = InitPanel
    /\ last = Other

(***************************************************************************)
(* Commit(new, ...): the store takes the value new and the effects run.    *)
(* Leaves nextId, surface, gest and last to the caller.                    *)
(***************************************************************************)
Commit(new, fileChanged, plChanged, sel, se, t) ==
    /\ Len(pageEffectRenders(new, fileChanged)) <= MaxPending
    /\ store' = new
    /\ renders' = pageEffectRenders(new, fileChanged)
    /\ wraps' = pageEffectWraps(new, fileChanged)
    /\ overlay' = viewOverlay(new, fileChanged, plChanged)
    /\ selected' = viewSelected(new, fileChanged, plChanged, sel)
    /\ session' = markSession(se, plChanged, containerCleared(new, fileChanged))
    /\ press' = markPress(t, plChanged, containerCleared(new, fileChanged))

(***************************************************************************)
(* App and SignaturePanel.                                                 *)
(***************************************************************************)
LoadFile(f) ==
    /\ gest.phase = "idle"
    /\ Commit(loadFile(store, f), TRUE, TRUE, selected, session, press)
    /\ last' = [op |-> "loadFile", had |-> Len(store.placements) > 0]
    /\ UNCHANGED <<nextId, surface, tasks, panel, gest>>

ClearSession ==
    /\ gest.phase = "idle"
    /\ Commit(clearAll(store), store.pdfFile # NoFile, TRUE, selected, session, press)
    /\ last' = Other
    /\ UNCHANGED <<nextId, surface, tasks, panel, gest>>

SetSignature(d) ==
    /\ gest.phase = "idle"
    /\ Commit(setCurrentSignature(store, d), FALSE, FALSE, selected, session, press)
    /\ last' = Other
    /\ UNCHANGED <<nextId, surface, tasks, panel, gest>>

ClearPlacements ==
    /\ gest.phase = "idle"
    /\ Commit(clearAllPlacements(store), FALSE, TRUE, selected, session, press)
    /\ last' = Other
    /\ UNCHANGED <<nextId, surface, tasks, panel, gest>>

(***************************************************************************)
(* A render started by the page effect completes: setPages, the container  *)
(* is emptied and refilled with the page wraps of the rendered document,   *)
(* whose listeners close over the signature of the effect run.             *)
(***************************************************************************)
RemoveAt(seq, i) == SubSeq(seq, 1, i - 1) \o SubSeq(seq, i + 1, Len(seq))

\* pdfjsLib.getDocument resolves for a well-formed document and rejects
\* for any other.
getDocument(d) == d \in Docs

RenderComplete(i) ==
    /\ i \in 1..Len(renders)
    /\ getDocument(renders[i].doc)
    /\ store' = setPages(store, renders[i].doc)
    /\ renders' = RemoveAt(renders, i)
    /\ wraps' = [doc |-> renders[i].doc, sig |-> renders[i].sig]
    /\ overlay' = NoOverlay
    /\ selected' = {}
    /\ session' = markSession(session, FALSE, TRUE)
    /\ press' = markPress(press, FALSE, TRUE)
    /\ last' = Other
    /\ UNCHANGED <<nextId, surface, tasks, panel, gest>>

\* renderPdfToCanvases rejects: the effect's async function ends at its
\* await, which nothing catches; setPages is not called and the container
\* keeps what it showed.
RenderFails(i) ==
    /\ i \in 1..Len(renders)
    /\ ~getDocument(renders[i].doc)
    /\ renders' = RemoveAt(renders, i)
    /\ last' = [op |-> "renderFailed", doc |-> renders[i].doc, alert |-> FALSE]
    /\ UNCHANGED <<store, nextId, wraps, overlay, selected, surface, session, press,
                   gest, tasks, panel>>

(***************************************************************************)
(* JavaScript arithmetic on percentages.  A removed canvas measures 0 x 0, *)
(* so a displacement divided by its size is +-Infinity or NaN; both are    *)
(* kept as sentinels and propagated as Math.min / Math.max / + / - do.     *)
(***************************************************************************)
Infinity == Full * Full
NaN == 0 - (Full * Full) - Full
IsFinite(a) == a # NaN /\ a # Infinity /\ a # 0 - Infinity

jsPercent(px, size) ==
    IF size # 0 THEN ToPercent(px, size)
    ELSE IF px > 0 THEN Infinity ELSE IF px < 0 THEN 0 - Infinity ELSE NaN
jsAdd(a, b) ==
    IF a = NaN \/ b = NaN THEN NaN
    ELSE IF IsFinite(a) /\ IsFinite(b) THEN a + b
    ELSE IF IsFinite(a) THEN b
    ELSE IF IsFinite(b) \/ a = b THEN a
    ELSE NaN
jsSub(a, b) == jsAdd(a, IF b = NaN THEN NaN ELSE 0 - b)
jsMin(a, b) == IF a = NaN \/ b = NaN THEN NaN ELSE Min(a, b)
jsMax(a, b) == IF a = NaN \/ b = NaN THEN NaN ELSE Max(a, b)

(***************************************************************************)
(* handlePlacement: the rect of a place gesture at pixel (px, py).         *)
(***************************************************************************)
defaultWidth == 220
defaultHeight == 60

placementRectAt(percentX, percentY, surf) ==
    LET percentW == ToPercent(defaultWidth, surf.width)
        percentH == ToPercent(defaultHeight, surf.height)
        clampedX == Max(0, Min(percentX - percentW \div 2, Full - percentW))
        clampedY == Max(0, Min(percentY - percentH \div 2, Full - percentH))
    IN Rect(clampedX, clampedY, percentW, percentH)

\* A faulty variant of selectSignature: does not deselect the others.
selectSignatureKeep(sel, id, detached) == IF detached THEN sel ELSE sel \cup {id}

selectSignature(sel, id, detached) == IF detached THEN {} ELSE {id}

(***************************************************************************)
(* handlePlacement as a step: page k of the wraps, percent point (qx, qy). *)
(* Leaves surface and gest to the caller.                                  *)
(***************************************************************************)
\* Placements created so far plus gestures that have issued an update.
Edits == (nextId - 1) + gest.n

handlePlacement(k, qx, qy, se, pr, cap) ==
    IF wraps.sig # NoSignature
    THEN LET rect == placementRectAt(qx, qy, surface)
             ok == addPlacementAccepts(Num(k), rect, wraps.sig)
         IN /\ Edits < cap
            /\ Commit(addPlacement(store, nextId, Num(k), rect, wraps.sig),
                      FALSE, ok, selected, se, pr)
            /\ nextId' = IF ok THEN nextId + 1 ELSE nextId
            /\ last' = [op |-> "place", page |-> k, accepted |-> ok, rect |-> rect,
                        corner |-> qx = 0 /\ qy = 0]
    ELSE /\ selected' = {}
         /\ session' = se
         /\ press' = pr
         /\ last' = [op |-> "deselect", page |-> k]
         /\ UNCHANGED <<store, nextId, renders, wraps, overlay>>

\* Click positions on a page, in halves of its width and height.
PlacePoints == { <<0, 0>>, <<1, 1>>, <<2, 2>> }
ListPoints == { <<1, 1>> }

PlaceGesture(k, pt, cap) ==
    /\ gest.phase = "idle"
    /\ k \in 0..(WrapCount(wraps) - 1)
    /\ handlePlacement(k, ToPercent(pt[1] * (surface.width \div 2), surface.width),
                       ToPercent(pt[2] * (surface.height \div 2), surface.height),
                       session, press, cap)
    /\ UNCHANGED <<surface, tasks, panel, gest>>

(***************************************************************************)
(* Geometry of an overlay image: its box is laid out in pixels when the    *)
(* overlay effect runs (surface overlay.surf).  Points are pixel offsets   *)
(* from the image's top-left corner; products by Full avoid fractions.     *)
(***************************************************************************)
HasBox(r) == IsFinite(r.x) /\ IsFinite(r.y) /\ IsFinite(r.w) /\ IsFinite(r.h)
InsideImg(pt, r, osurf) ==
    /\ 0 <= pt[1] /\ pt[1] * Full <= r.w * osurf.width
    /\ 0 <= pt[2] /\ pt[2] * Full <= r.h * osurf.height

isMobile(surf) == surf.innerWidth <= 768
handleAreaSize(surf) == IF isMobile(surf) THEN 40 ELSE 30

inHandleArea(pt, r, osurf, surf) ==
    /\ pt[1] * Full > r.w * osurf.width - handleAreaSize(surf) * Full
    /\ pt[2] * Full > r.h * osurf.height - handleAreaSize(surf) * Full

GrabPoints == { <<5, 5>>, <<200, 40>> }
MoveDeltas == { <<2, 0>>, <<8, 0>>, <<0, 20>>, <<2000, 4000>> }
ListDeltas == { <<8, 0>> }

(***************************************************************************)
(* startDrag / handleMove, startResize / handleResizeMove.                 *)
(***************************************************************************)
dragThreshold == 5
touchDragDistance == 15
minW == 5 * PerCent
minH == 3 * PerCent

startDrag(id, startX, startY, input) ==
    [kind |-> "drag", input |-> input, id |-> id, startX |-> startX, startY |-> startY,
     startRect |-> PlacementOf(store, id).rect, dragStarted |-> FALSE,
     detached |-> FALSE, wrapGone |-> FALSE]

startResize(id, startX, startY, input) ==
    [kind |-> "resize", input |-> input, id |-> id, startX |-> startX, startY |-> startY,
     startRect |-> PlacementOf(store, id).rect, dragStarted |-> FALSE,
     detached |-> FALSE, wrapGone |-> FALSE]

canvasWidth(se) == IF se.wrapGone THEN 0 ELSE surface.width
canvasHeight(se) == IF se.wrapGone THEN 0 ELSE surface.height

dragStartedAfter(se, moveX, moveY) ==
    \/ se.dragStarted
    \/ ~(Abs(moveX - se.startX) < dragThreshold /\ Abs(moveY - se.startY) < dragThreshold)

handleMove(se, moveX, moveY) ==
    LET percentDx == jsPercent(moveX - se.startX, canvasWidth(se))
        percentDy == jsPercent(moveY - se.startY, canvasHeight(se))
        newX == jsMax(0, jsMin(jsAdd(se.startRect.x, percentDx), jsSub(Full, se.startRect.w)))
        newY == jsMax(0, jsMin(jsAdd(se.startRect.y, percentDy), jsSub(Full, se.startRect.h)))
    IN [se.startRect EXCEPT !.x = newX, !.y = newY]

handleResizeMove(se, moveX, moveY) ==
    LET percentDx == jsPercent(moveX - se.startX, canvasWidth(se))
        percentDy == jsPercent(moveY - se.startY, canvasHeight(se))
        maxW == jsSub(Full, se.startRect.x)
        maxH == jsSub(Full, se.startRect.y)
    IN [se.startRect EXCEPT
          !.w = jsMax(minW, jsMin(maxW, jsAdd(se.startRect.w, percentDx))),
          !.h = jsMax(minH, jsMin(maxH, jsAdd(se.startRect.h, percentDy)))]

(***************************************************************************)
(* The document-level move listeners of the session se receive a sample.   *)
(* calls: whether updatePlacement is called, and with which rect.          *)
(***************************************************************************)
sessionCalls(se, moveX, moveY) ==
    IF se.kind = "drag" THEN dragStartedAfter(se, moveX, moveY)
    ELSE se.kind = "resize"

sessionRect(se, moveX, moveY) ==
    IF se.kind = "drag" THEN handleMove(se, moveX, moveY)
    ELSE handleResizeMove(se, moveX, moveY)

sessionAfter(se, moveX, moveY) ==
    IF se.kind = "drag"
    THEN [se EXCEPT !.dragStarted = dragStartedAfter(se, moveX, moveY)]
    ELSE se

observeSample(g, moveX, moveY, called) ==
    LET dx == Abs(moveX - g.sx)
        dy == Abs(moveY - g.sy)
    IN [g EXCEPT !.within = @ /\ dx < dragThreshold /\ dy < dragThreshold,
                 !.reach8 = @ \/ dx >= 8 \/ dy >= 8,
                 !.updates = IF called THEN 1 ELSE @,
                 !.n = IF called /\ g.updates = 0 THEN @ + 1 ELSE @]

(***************************************************************************)
(* A sample (moveX, moveY) reaches the document listeners of session se    *)
(* while sel is selected and pr is the pressed element.                    *)
(***************************************************************************)
DeliverMove(se, pr, sel, moveX, moveY, cap) ==
    LET called == sessionCalls(se, moveX, moveY)
        rect == sessionRect(se, moveX, moveY)
    IN /\ called => (gest.updates > 0 \/ Edits < cap)
       /\ IF called
          THEN /\ Commit(updatePlacement(store, se.id, rect), FALSE, TRUE, sel,
                         sessionAfter(se, moveX, moveY), pr)
               /\ last' = [op |-> "update", id |-> se.id, by |-> se.kind,
                           moveX |-> moveX, moveY |-> moveY]
          ELSE /\ session' = sessionAfter(se, moveX, moveY)
               /\ press' = pr
               /\ selected' = sel
               /\ last' = Other
               /\ UNCHANGED <<store, renders, wraps, overlay>>
       /\ gest' = observeSample(gest, moveX, moveY, called)
       /\ UNCHANGED <<nextId, surface, tasks, panel>>

(***************************************************************************)
(* Pointer gestures on an overlay image and on its resize handle.          *)
(***************************************************************************)
pressOn(on, input, id, pt, timer) ==
    [on |-> on, input |-> input, id |-> id, detached |-> FALSE,
     initialTouchX |-> pt[1], initialTouchY |-> pt[2], touchMoveStarted |-> FALSE,
     isPinching |-> FALSE, longPressTimer |-> timer, isLongPress |-> FALSE,
     pinch |-> NoPinch]

beginGest(input, target, zone, id, pt) ==
    [phase |-> "down", n |-> gest.n, input |-> input, target |-> target,
     inZone |-> zone, id |-> id, wasSelected |-> id \in selected,
     sx |-> pt[1], sy |-> pt[2], within |-> TRUE, reach8 |-> FALSE, updates |-> 0,
     switched |-> FALSE]

endGest(g) == [IdleGest EXCEPT !.n = g.n]

CanPoint(id, pt) ==
    /\ gest.phase = "idle"
    /\ id \in overlay.ids
    /\ HasBox(PlacementOf(store, id).rect)
    /\ InsideImg(pt, PlacementOf(store, id).rect, overlay.surf)

\* img 'mousedown' (left button): startDrag(clientX, clientY, true)
MouseDownImg(id, pt) ==
    /\ CanPoint(id, pt)
    /\ LET zone == inHandleArea(pt, PlacementOf(store, id).rect, overlay.surf, surface)
       IN /\ session' = IF zone THEN session ELSE startDrag(id, pt[1], pt[2], "mouse")
          /\ selected' = IF zone THEN selected ELSE selectSignature(selected, id, FALSE)
          /\ gest' = beginGest("mouse", "body", zone, id, pt)
    /\ press' = pressOn("img", "mouse", id, pt, FALSE)
    /\ last' = Other
    /\ UNCHANGED <<store, nextId, renders, wraps, overlay, surface, tasks, panel>>

\* handle 'mousedown': startResize(clientX, clientY); the handle is shown
\* only while its image is selected.
MouseDownHandle(id) ==
    /\ gest.phase = "idle"
    /\ id \in selected
    /\ id \in Ids(store.placements)
    /\ HasBox(PlacementOf(store, id).rect)
    /\ session' = startResize(id, 0, 0, "mouse")
    /\ press' = pressOn("handle", "mouse", id, <<0, 0>>, FALSE)
    /\ gest' = beginGest("mouse", "handle", TRUE, id, <<0, 0>>)
    /\ last' = Other
    /\ UNCHANGED <<store, nextId, renders, wraps, overlay, selected, surface, tasks, panel>>

\* document 'mousemove'
MouseMove(d, cap) ==
    /\ gest.phase = "down"
    /\ gest.input = "mouse"
    /\ DeliverMove(session, press, selected, gest.sx + d[1], gest.sy + d[2], cap)

\* document 'mouseup' (handleEnd / handleResizeEnd), then the 'click' that
\* follows on the pressed element when it is still in the document: on the
\* image it selects; on the handle it bubbles to the page wrap's click
\* listener, i.e. handlePlacement at the handle's position.
HandlePoint(id) ==
    LET r == PlacementOf(store, id).rect
    IN << ((r.x + r.w) * overlay.surf.width) \div surface.width,
          ((r.y + r.h) * overlay.surf.height) \div surface.height >>

MouseUp(cap) ==
    /\ gest.phase = "down"
    /\ gest.input = "mouse"
    /\ gest' = endGest(gest)
    /\ IF press.detached
       THEN /\ session' = NoSession
            /\ press' = NoPress
            /\ last' = Other
            /\ UNCHANGED <<store, nextId, renders, wraps, overlay, selected>>
       ELSE IF press.on = "img"
       THEN /\ session' = NoSession
            /\ press' = NoPress
            /\ selected' = selectSignature(selected, press.id, FALSE)
            /\ last' = [op |-> "select", id |-> press.id, before |-> selected]
            /\ UNCHANGED <<store, nextId, renders, wraps, overlay>>
       ELSE handlePlacement(PlacementOf(store, press.id).pageIndex.num,
                            HandlePoint(press.id)[1], HandlePoint(press.id)[2],
                            NoSession, NoPress, cap)
    /\ UNCHANGED <<surface, tasks, panel>>

\* img 'touchstart' with one touch
TouchStartImg(id, pt) ==
    /\ CanPoint(id, pt)
    /\ press' = pressOn("img", "touch", id, pt, TRUE)
    /\ gest' = beginGest("touch", "body",
                         inHandleArea(pt, PlacementOf(store, id).rect, overlay.surf, surface),
                         id, pt)
    /\ last' = Other
    /\ UNCHANGED <<store, nextId, renders, wraps, overlay, selected, surface, tasks, panel, session>>

\* handle 'touchstart' with one touch: startResize, then selectSignature
TouchStartHandle(id) ==
    /\ gest.phase = "idle"
    /\ id \in selected
    /\ session' = startResize(id, 0, 0, "touch")
    /\ selected' = selectSignature(selected, id, FALSE)
    /\ press' = pressOn("handle", "touch", id, <<0, 0>>, FALSE)
    /\ gest' = beginGest("touch", "handle", TRUE, id, <<0, 0>>)
    /\ last' = Other
    /\ UNCHANGED <<store, nextId, renders, wraps, overlay, surface, tasks, panel>>

\* 'touchmove' with one touch.  On the image: the img listener clears the
\* long-press timer and may call startDrag; the event then bubbles to the
\* document listeners of the session.  On the handle: the handle listener
\* stops propagation, so no document listener sees the sample.
touchStartsDrag(pr, moveX, moveY) ==
    /\ ~pr.isPinching
    /\ ~pr.touchMoveStarted
    /\ ~pr.detached
    /\ ~inHandleArea(<<pr.initialTouchX, pr.initialTouchY>>,
                     PlacementOf(store, pr.id).rect, overlay.surf, surface)
    /\ \/ Abs(moveX - pr.initialTouchX) > touchDragDistance
       \/ Abs(moveY - pr.initialTouchY) > touchDragDistance

TouchMove(d, cap) ==
    /\ gest.phase = "down"
    /\ gest.input = "touch"
    /\ ~press.pinch.on
    /\ LET moveX == gest.sx + d[1]
           moveY == gest.sy + d[2]
       IN IF press.on = "handle"
          THEN /\ gest' = observeSample(gest, moveX, moveY, FALSE)
               /\ last' = Other
               /\ UNCHANGED <<store, nextId, renders, wraps, overlay, selected,
                              surface, tasks, panel, session, press>>
          ELSE LET starts == touchStartsDrag(press, moveX, moveY)
                   pr == [press EXCEPT !.longPressTimer = FALSE,
                                       !.touchMoveStarted = @ \/ starts]
                   se == IF starts
                         THEN startDrag(press.id, press.initialTouchX,
                                        press.initialTouchY, "touch")
                         ELSE session
                   sel == IF starts THEN selectSignature(selected, press.id, FALSE)
                          ELSE selected
               IN DeliverMove(se, pr, sel, moveX, moveY, cap)

\* The selection after the two 'touchend' events that end a pinch.  The
\* second finger lifts first: the listener of its image resets isPinching
\* and, unless that closure is dragging, selects and stops the propagation,
\* so the drag session of the first finger stays open; then the first finger
\* lifts on the pressed image.
pinchEndSelected(sel, se, pr) ==
    LET dragging == se.kind = "drag"
        cond1 == IF pr.pinch.same THEN ~dragging /\ ~pr.isLongPress ELSE TRUE
        sel1 == IF cond1 THEN selectSignature(sel, pr.id, pr.pinch.detached) ELSE sel
        cond2 == IF pr.pinch.same THEN TRUE ELSE ~dragging /\ ~pr.isLongPress
    IN IF cond2 THEN selectSignature(sel1, pr.id, pr.detached) ELSE sel1

\* 'touchend': the img listener selects on a tap; the document listeners
\* end the session.
TouchEnd ==
    /\ gest.phase = "down"
    /\ gest.input = "touch"
    /\ gest' = endGest(gest)
    /\ selected' =
         IF press.pinch.on THEN pinchEndSelected(selected, session, press)
         ELSE IF press.on = "img" /\ session.kind # "drag" /\ ~press.isLongPress
         THEN selectSignature(selected, press.id, press.detached)
         ELSE selected
    /\ session' = NoSession
    /\ press' = NoPress
    /\ last' = IF press.on = "img" /\ session.kind # "drag" /\ ~press.isLongPress
                  /\ ~press.detached /\ ~press.pinch.on
               THEN [op |-> "select", id |-> press.id, before |-> selected]
               ELSE Other
    /\ UNCHANGED <<store, nextId, renders, wraps, overlay, surface, tasks, panel>>

(***************************************************************************)
(* Delete gestures: each asks confirm() and calls removePlacement on yes.  *)
(***************************************************************************)
Delete(id, yes, via, se, pr) ==
    /\ IF yes
       THEN Commit(removePlacement(store, id), FALSE, TRUE, selected, se, pr)
       ELSE /\ session' = se
            /\ press' = pr
            /\ UNCHANGED <<store, renders, wraps, overlay, selected>>
    /\ last' = IF yes
               THEN [op |-> "delete", confirmed |-> TRUE, id |-> id,
                     had |-> id \in Ids(store.placements)]
               ELSE [op |-> "delete", confirmed |-> FALSE]
    /\ UNCHANGED <<nextId, surface, tasks, panel, gest>>

\* document 'keydown' with Delete or Backspace; the keyboard is used between
\* pointer gestures.
KeyDelete(yes) ==
    /\ gest.phase = "idle"
    /\ selected # {}
    /\ Delete(CHOOSE id \in selected : TRUE, yes, "key", session, press)

\* img 'contextmenu'
ContextMenu(id, yes) ==
    /\ gest.phase = "idle"
    /\ id \in overlay.ids
    /\ Delete(id, yes, "contextmenu", session, press)

\* the long-press timer armed by img 'touchstart' fires
LongPress(yes) ==
    /\ press.on = "img"
    /\ press.longPressTimer
    /\ Delete(press.id, yes, "longpress", session,
              [press EXCEPT !.longPressTimer = FALSE, !.isLongPress = TRUE])

(***************************************************************************)
(* Pinch: a second finger goes down on the image of the placement whose    *)
(* image the first finger is on.  The listeners run on the image that is   *)
(* in the document at that moment: the pressed image itself, or, once an   *)
(* update has rebuilt the overlays, the image that replaced it, which has  *)
(* a closure of its own.  Every touch event is taken to reach the document *)
(* listeners of an open session, as TouchMove takes it.                    *)
(***************************************************************************)
\* img 'touchstart' with two touches
SecondTouchStart ==
    /\ gest.phase = "down"
    /\ gest.input = "touch"
    /\ press.on = "img"
    /\ ~press.pinch.on
    /\ press.id \in overlay.ids
    /\ press.id \in Ids(store.placements)
    /\ press' = IF press.detached
                THEN [press EXCEPT !.pinch =
                        [on |-> TRUE, same |-> FALSE, detached |-> FALSE,
                         initialRect |-> PlacementOf(store, press.id).rect]]
                ELSE [press EXCEPT !.longPressTimer = FALSE, !.isPinching = TRUE,
                                   !.isLongPress = FALSE, !.touchMoveStarted = FALSE,
                                   !.pinch =
                        [on |-> TRUE, same |-> TRUE, detached |-> FALSE,
                         initialRect |-> PlacementOf(store, press.id).rect]]
    /\ selected' = selectSignature(selected, press.id, FALSE)
    /\ last' = [op |-> "pinchstart", id |-> press.id, dragging |-> session.kind = "drag"]
    /\ UNCHANGED <<store, nextId, renders, wraps, overlay, surface, tasks, panel, session, gest>>

\* scaleFactor = currentDistance / initialDistance, as a pair <<num, den>>
PinchScales == {<<1, 2>>, <<2, 1>>}
pinchMaxW == 50 * PerCent
pinchMaxH == 30 * PerCent
jsScale(a, sf) == IF IsFinite(a) THEN (a * sf[1]) \div sf[2] ELSE a

pinchRect(initialRect, sf) ==
    LET maxW == jsMin(pinchMaxW, jsSub(Full, initialRect.x))
        maxH == jsMin(pinchMaxH, jsSub(Full, initialRect.y))
    IN [initialRect EXCEPT
          !.w = jsMax(minW, jsMin(maxW, jsScale(initialRect.w, sf))),
          !.h = jsMax(minH, jsMin(maxH, jsScale(initialRect.h, sf)))]

\* 'touchmove' with two touches, the first finger displaced by d from where
\* it went down and the distance of the fingers scaled by sf: the img
\* listener of the pinch issues the resize, then the document listener of an
\* open session calls handleMove with touches[0], the first finger.
PinchMove(d, sf, cap) ==
    /\ gest.phase = "down"
    /\ press.pinch.on
    /\ gest.updates > 0 \/ Edits < cap
    /\ LET id == press.id
           moveX == gest.sx + d[1]
           moveY == gest.sy + d[2]
           pinched == updatePlacement(store, id, pinchRect(press.pinch.initialRect, sf))
           called == sessionCalls(session, moveX, moveY)
           rect == sessionRect(session, moveX, moveY)
           new == IF called THEN updatePlacement(pinched, session.id, rect) ELSE pinched
           before == PlacementOf(pinched, id).rect
       IN /\ Commit(new, FALSE, TRUE, selected, sessionAfter(session, moveX, moveY),
                    [press EXCEPT !.longPressTimer =
                                     IF press.pinch.same THEN FALSE ELSE @])
          /\ last' = [op |-> "pinch", id |-> id,
                      moved |-> /\ called
                                /\ id \in Ids(store.placements)
                                /\ rect.x # before.x \/ rect.y # before.y]
          /\ gest' = observeSample(gest, moveX, moveY, TRUE)
    /\ UNCHANGED <<nextId, surface, tasks, panel>>

(***************************************************************************)
(* The application as its user drives it.                                  *)
(***************************************************************************)
SignatureInputs == {PngURL, GifURL}
AppDocs == {1}

NextWith(cap, points, deltas, grabs, sigs) ==
    \/ \E f \in AppDocs : LoadFile(f)
    \/ ClearSession
    \/ \E d \in sigs : SetSignature(d)
    \/ ClearPlacements
    \/ \E i \in 1..MaxPending : RenderComplete(i)
    \/ \E k \in 0..1, pt \in points : PlaceGesture(k, pt, cap)
    \/ \E id \in 1..cap, pt \in grabs : MouseDownImg(id, pt)
    \/ \E id \in 1..cap : MouseDownHandle(id)
    \/ \E d \in deltas : MouseMove(d, cap)
    \/ MouseUp(cap)
    \/ \E id \in 1..cap, pt \in grabs : TouchStartImg(id, pt)
    \/ \E id \in 1..cap : TouchStartHandle(id)
    \/ \E d \in deltas : TouchMove(d, cap)
    \/ TouchEnd
    \/ \E yes \in BOOLEAN : KeyDelete(yes)
    \/ \E id \in 1..cap, yes \in BOOLEAN : ContextMenu(id, yes)
    \/ \E yes \in BOOLEAN : LongPress(yes)

Next == NextWith(MaxEdits, PlacePoints, MoveDeltas, GrabPoints, SignatureInputs)

Spec == Init /\ [][Next]_vars

(***************************************************************************)
(* The same application with several placements on one surface and one     *)
(* pointer displacement: the placement list and the selection.             *)
(***************************************************************************)
ListInit == Init /\ surface = InitSurface
ListGrabs == {<<5, 5>>}
ListSignatures == {PngURL}
ListNext == NextWith(MaxListEdits, ListPoints, ListDeltas, ListGrabs, ListSignatures)
ListSpec == ListInit /\ [][ListNext]_vars

(***************************************************************************)
(* The application driven by touch alone, with one and with two fingers.   *)
(***************************************************************************)
PinchDeltas == {<<0, 20>>, <<0, 40>>}

PinchNext ==
    \/ \E f \in AppDocs : LoadFile(f)
    \/ \E d \in ListSignatures : SetSignature(d)
    \/ \E i \in 1..MaxPending : RenderComplete(i)
    \/ \E k \in 0..1, pt \in PlacePoints : PlaceGesture(k, pt, MaxEdits)
    \/ \E id \in 1..MaxEdits, pt \in ListGrabs : TouchStartImg(id, pt)
    \/ \E d \in PinchDeltas : TouchMove(d, MaxEdits)
    \/ SecondTouchStart
    \/ \E d \in PinchDeltas, sf \in PinchScales : PinchMove(d, sf, MaxEdits)
    \/ TouchEnd
    \/ \E yes \in BOOLEAN : LongPress(yes)

PinchSpec == Init /\ [][PinchNext]_vars

(***************************************************************************)
(* The document is switched or the session cleared while the pointer is    *)
(* down on a placement: loadFile is called from the FileReader callback of *)
(* the upload (App, handlePdfUpload), clearAll by the Clear All button.    *)
(***************************************************************************)
SwitchDuring(f) ==
    /\ gest.phase = "down"
    /\ Commit(loadFile(store, f), TRUE, TRUE, selected, session, press)
    /\ gest' = [gest EXCEPT !.switched = TRUE]
    /\ last' = [op |-> "loadFile", had |-> Len(store.placements) > 0]
    /\ UNCHANGED <<nextId, surface, tasks, panel>>

ClearDuring ==
    /\ gest.phase = "down"
    /\ Commit(clearAll(store), store.pdfFile # NoFile, TRUE, selected, session, press)
    /\ gest' = [gest EXCEPT !.switched = TRUE]
    /\ last' = Other
    /\ UNCHANGED <<nextId, surface, tasks, panel>>

SwitchNext ==
    \/ \E f \in AppDocs : LoadFile(f)
    \/ \E d \in ListSignatures : SetSignature(d)
    \/ \E i \in 1..MaxPending : RenderComplete(i)
    \/ \E k \in 0..1, pt \in ListPoints : PlaceGesture(k, pt, MaxEdits)
    \/ \E id \in 1..MaxEdits, pt \in ListGrabs : MouseDownImg(id, pt)
    \/ \E id \in 1..MaxEdits : MouseDownHandle(id)
    \/ \E d \in ListDeltas : MouseMove(d, MaxEdits)
    \/ MouseUp(MaxEdits)
    \/ \E id \in 1..MaxEdits, pt \in ListGrabs : TouchStartImg(id, pt)
    \/ \E d \in PinchDeltas : TouchMove(d, MaxEdits)
    \/ SecondTouchStart
    \/ \E d \in PinchDeltas, sf \in PinchScales : PinchMove(d, sf, MaxEdits)
    \/ TouchEnd
    \/ \E yes \in BOOLEAN : LongPress(yes)
    \/ \E f \in Docs : SwitchDuring(f)
    \/ ClearDuring

SwitchSpec == ListInit /\ [][SwitchNext]_vars

(***************************************************************************)
(* Touch gestures on up to two placements, with samples below and above    *)
(* the distance that starts a drag, long-press deletion, and the document  *)
(* switched or the session cleared while the finger is down.               *)
(***************************************************************************)
FrameDeltas == {<<0, 4>>, <<0, 40>>}

FrameNext ==
    \/ \E f \in AppDocs : LoadFile(f)
    \/ \E d \in ListSignatures : SetSignature(d)
    \/ \E i \in 1..MaxPending : RenderComplete(i)
    \/ \E k \in 0..1, pt \in PlacePoints : PlaceGesture(k, pt, MaxListEdits)
    \/ \E id \in 1..MaxListEdits, pt \in ListGrabs : TouchStartImg(id, pt)
    \/ \E d \in FrameDeltas : TouchMove(d, MaxListEdits)
    \/ TouchEnd
    \/ \E yes \in BOOLEAN : LongPress(yes)
    \/ \E f \in AppDocs : SwitchDuring(f)
    \/ ClearDuring

FrameSpec == ListInit /\ [][FrameNext]_vars

(***************************************************************************)
(* The store on its own: its operations called with arbitrary arguments.   *)
(***************************************************************************)
\* The facts about the arguments of a call that last records.
AddressesPage(s, pageIndex) ==
    /\ s.pdfFile # NoFile
    /\ NumberIsInteger(pageIndex)
    /\ 0 <= pageIndex.num
    /\ pageIndex.num < PageCount(s.pdfFile)

AcceptedPayload(dataUrl) ==
    /\ dataUrl.type \in {"image/png", "image/jpeg", "image/jpg"}
    /\ canEmbed(dataUrl)

StoreCall(new, op) ==
    /\ store' = new
    /\ last' = op
    /\ UNCHANGED <<renders, wraps, overlay, selected, surface, tasks, panel, session, press, gest>>

CallLoadFile(f) ==
    /\ StoreCall(loadFile(store, f), [op |-> "loadFile", had |-> Len(store.placements) > 0])
    /\ UNCHANGED nextId

CallClearAll ==
    /\ StoreCall(clearAll(store), Other)
    /\ UNCHANGED nextId

CallSetPages(d) ==
    /\ StoreCall(setPages(store, d), Other)
    /\ UNCHANGED nextId

CallSetCurrentSignature(d) ==
    /\ StoreCall(setCurrentSignature(store, d), [op |-> "setCurrentSignature", d |-> d])
    /\ UNCHANGED nextId

CallAddPlacement(pageIndex, rect, imageDataUrl) ==
    /\ nextId <= MaxIds
    /\ StoreCall(addPlacement(store, nextId, pageIndex, rect, imageDataUrl),
                 [op |-> "addPlacement", rectValid |-> ValidRect(rect),
                  pageExists |-> AddressesPage(store, pageIndex),
                  imageAccepted |-> AcceptedPayload(imageDataUrl)])
    /\ nextId' = IF addPlacementAccepts(pageIndex, rect, imageDataUrl)
                 THEN nextId + 1 ELSE nextId

CallUpdatePlacement(id, rect) ==
    /\ StoreCall(updatePlacement(store, id, rect),
                 [op |-> "updatePlacement", id |-> id, rectValid |-> ValidRect(rect),
                  had |-> id \in Ids(store.placements)])
    /\ UNCHANGED nextId

CallRemovePlacement(id) ==
    /\ StoreCall(removePlacement(store, id),
                 [op |-> "delete", id |-> id, confirmed |-> TRUE,
                  had |-> id \in Ids(store.placements)])
    /\ UNCHANGED nextId

CallClearAllPlacements ==
    /\ StoreCall(clearAllPlacements(store), Other)
    /\ UNCHANGED nextId

StoreSignatures == {NoSignature, PngURL, GifURL}

StoreInit == Init /\ surface = InitSurface
StoreNext ==
    \/ \E f \in Docs : CallLoadFile(f)
    \/ CallClearAll
    \/ \E d \in Docs : CallSetPages(d)
    \/ \E d \in StoreSignatures : CallSetCurrentSignature(d)
    \/ \E pageIndex \in PageIndexInputs, rect \in RectInputs, url \in DataURLInputs :
          CallAddPlacement(pageIndex, rect, url)
    \/ \E id \in 1..(MaxIds + 1), rect \in RectInputs : CallUpdatePlacement(id, rect)
    \/ \E id \in 1..(MaxIds + 1) : CallRemovePlacement(id)
    \/ CallClearAllPlacements
StoreSpec == StoreInit /\ [][StoreNext]_vars

(***************************************************************************)
(* Export.  exportAll takes pdfFile and placements from the store and      *)
(* calls exportSignedPdf, which works on that snapshot alone.  The sources *)
(* hold two versions of exportSignedPdf: the module the store imports      *)
(* (modules/write/export.ts, "scaled": divides the rect by 1.5, lets the   *)
(* collaborator's error through) and a second one (unnamed/part_000,       *)
(* "percent": percent of the page size, every error replaced by one        *)
(* message).  Which of them a build links is left open: every export       *)
(* picks one.                                                              *)
(* Native lengths are in thousandths of a point.                           *)
(***************************************************************************)
ExportVersions == {"scaled", "percent"}
CorruptDoc == 3
ExportDocs == Docs \cup {CorruptDoc}
Milli == 10 * 100
LetterWidth == 612
LetterHeight == 792

\* PDFDocument.load
pdfLoads(f) == f \in Docs

\* pdfDoc.getPages()[pageIndex] is a page
hasPage(f, pageIndex) ==
    /\ NumberIsInteger(pageIndex)
    /\ 0 <= pageIndex.num
    /\ pageIndex.num < PageCount(f)

\* page.getSize(): document 2 has a landscape second page
getSize(f, pageIndex) ==
    IF f = 2 /\ pageIndex.num = 1
    THEN [width |-> LetterHeight, height |-> LetterWidth]
    ELSE [width |-> LetterWidth, height |-> LetterHeight]

scaleNum == 3
scaleDen == 2

\* The rect handed to page.drawImage.
nativeRect(version, r, size) ==
    IF version = "percent"
    THEN [x |-> (r.x * size.width) \div (Full \div Milli),
          y |-> size.height * Milli - ((r.y + r.h) * size.height) \div (Full \div Milli),
          width |-> (r.w * size.width) \div (Full \div Milli),
          height |-> (r.h * size.height) \div (Full \div Milli)]
    ELSE [x |-> (r.x * Milli * scaleDen) \div (PerCent * scaleNum),
          y |-> size.height * Milli
                  - ((r.y + r.h) * Milli * scaleDen) \div (PerCent * scaleNum),
          width |-> (r.w * Milli * scaleDen) \div (PerCent * scaleNum),
          height |-> (r.h * Milli * scaleDen) \div (PerCent * scaleNum)]

\* A cache keyed by the placement: a faulty variant.
cacheKeyById(p) == p.id

\* cache.get(p.imageDataUrl) / cache.set(p.imageDataUrl, img)
cacheKey(p) == p.imageDataUrl

\* JPEG tried before PNG: a faulty variant.
embedTriesJpgFirst(dataUrl) ==
    IF embedJpg(dataUrl) THEN << [payload |-> dataUrl, format |-> "jpg", ok |-> TRUE] >>
    ELSE << [payload |-> dataUrl, format |-> "jpg", ok |-> FALSE],
            [payload |-> dataUrl, format |-> "png", ok |-> embedPng(dataUrl)] >>

\* try { embedPng } catch { embedJpg }: the embed calls made for a payload
embedTries(dataUrl) ==
    IF embedPng(dataUrl) THEN << [payload |-> dataUrl, format |-> "png", ok |-> TRUE] >>
    ELSE << [payload |-> dataUrl, format |-> "png", ok |-> FALSE],
            [payload |-> dataUrl, format |-> "jpg", ok |-> embedJpg(dataUrl)] >>

NoProgress ==
    [cache |-> {}, embeds |-> 0, tries |-> <<>>, drawn |-> <<>>, cause |-> "none"]

\* The loop over the placements from index i on: stops at the first
\* placement whose page is missing or whose payload cannot be embedded.
RECURSIVE exportLoop(_, _, _, _, _)
exportLoop(version, f, pl, i, acc) ==
    IF i > Len(pl) THEN acc
    ELSE LET p == pl[i]
             hit == cacheKey(p) \in acc.cache
             tries == IF hit THEN <<>> ELSE embedTries(p.imageDataUrl)
             embedded == hit \/ tries[Len(tries)].ok
         IN IF ~hasPage(f, p.pageIndex) THEN [acc EXCEPT !.cause = "page"]
            ELSE IF ~embedded
            THEN [acc EXCEPT !.cause = "embed", !.tries = @ \o tries]
            ELSE exportLoop(version, f, pl, i + 1,
                   [cache |-> acc.cache \cup {cacheKey(p)},
                    embeds |-> IF hit THEN acc.embeds ELSE acc.embeds + 1,
                    tries |-> acc.tries \o tries,
                    drawn |-> Append(acc.drawn,
                                [page |-> p.pageIndex.num,
                                 image |-> p.imageDataUrl,
                                 rect |-> nativeRect(version, p.rect,
                                                     getSize(f, p.pageIndex))]),
                    cause |-> "none"])

\* What exportSignedPdf throws for a failure of the given cause.
thrown(version, cause) ==
    IF cause = "none" THEN "none"
    ELSE IF version = "percent"
    THEN "Failed to export PDF. The file may be corrupted or incompatible."
    ELSE IF cause = "load" THEN "PDFDocument.load error"
    ELSE IF cause = "page" THEN "TypeError"
    ELSE IF cause = "embed" THEN "embedJpg error"
    ELSE "PDFDocument.save error"

\* A faulty variant: the anchor is clicked whatever happened before.
exportDelivers(cause) == TRUE

\* a.click() is reached
exportDownloads(cause) == cause = "none"

NoBytes == [source |-> NoFile, drawn |-> <<>>]

\* Bytes that carry the time of the call: a faulty variant.
outputBytesStamped(f, drawn, now) == [source |-> f, drawn |-> drawn, stamp |-> now]

\* pdfDoc.save(): the source with the images drawn on it; the function reads
\* no clock and no random source of its own.
outputBytes(f, drawn, now) == [source |-> f, drawn |-> drawn]

\* exportSignedPdf(file, placements) called at time now; saveOk: pdfDoc.save()
\* succeeds.
exportSignedPdf(version, f, pl, saveOk, now) ==
    LET run == IF pdfLoads(f) THEN exportLoop(version, f, pl, 1, NoProgress)
               ELSE [NoProgress EXCEPT !.cause = "load"]
        cause == IF run.cause = "none" /\ ~saveOk THEN "save" ELSE run.cause
    IN [embeds |-> run.embeds, tries |-> run.tries, cache |-> run.cache,
        drawn |-> run.drawn, cause |-> cause,
        thrown |-> thrown(version, cause), downloaded |-> exportDownloads(cause),
        output |-> IF exportDownloads(cause) THEN outputBytes(f, run.drawn, now)
                   ELSE NoBytes]

\* try { await exportSignedPdf(pdfFile, placements) } catch { alert }
exportReport(version, f, pl, saveOk, now) ==
    LET r == exportSignedPdf(version, f, pl, saveOk, now)
    IN [op |-> "exportAll",
        outcome |-> IF r.thrown = "none" THEN "done" ELSE "failed",
        alert |-> IF r.thrown = "none" THEN "none"
                  ELSE "Failed to export PDF. Please try again.",
        version |-> version, cause |-> r.cause, thrown |-> r.thrown,
        embeds |-> r.embeds, tries |-> r.tries, cache |-> r.cache,
        drawn |-> r.drawn, downloaded |-> r.downloaded, output |-> r.output,
        file |-> f, placements |-> pl, now |-> now]

\* An exportAll that runs the export whatever the store holds: a faulty variant.
exportAllUnguarded(s, version, saveOk, now) ==
    exportReport(version, s.pdfFile, s.placements, saveOk, now)

\* exportAll of the store
exportAll(s, version, saveOk, now) ==
    IF s.pdfFile = NoFile
    THEN [op |-> "exportAll", outcome |-> "refused",
          alert |-> "Please load a PDF file first"]
    ELSE IF Len(s.placements) = 0
    THEN [op |-> "exportAll", outcome |-> "refused",
          alert |-> "Please add at least one signature to the PDF"]
    ELSE exportReport(version, s.pdfFile, s.placements, saveOk, now)

\* The times at which exportAll is called.
Clock == {0, 1}

\* again: the call before this one was an export by the same function.
repeats(version) ==
    last.op = "exportAll" /\ last.outcome # "refused" /\ last.version = version

\* retry: the call before this one was an export that failed.
retries == last.op = "exportAll" /\ last.outcome = "failed"

\* An export that empties the placement list: a faulty variant.
storeAfterExportReset(s) == clearAllPlacements(s)

\* The store when exportAll has ended: exportAll only reads it (get()), and
\* exportSignedPdf works on a copy of the file's bytes.
storeAfterExport(s) == s

\* exportAll from its call to its end, nothing else happening meanwhile.
ExportAll(version, saveOk, now) ==
    /\ StoreCall(storeAfterExport(store),
                 exportAll(store, version, saveOk, now)
                   @@ [again |-> repeats(version), retry |-> retries])
    /\ UNCHANGED nextId

ExportPages == {Num(0), Num(1)}
ExportRects == { Rect(10 * PerCent, 20 * PerCent, 15 * PerCent, 5 * PerCent),
                 Rect(0, 0, Full, Full) }
ExportPayloads == {PngURL, JpegURL, WebpURL}

CallAddForExport(pageIndex, rect, imageDataUrl) ==
    /\ nextId <= MaxExportPlacements
    /\ StoreCall(addPlacement(store, nextId, pageIndex, rect, imageDataUrl), Other)
    /\ nextId' = IF addPlacementAccepts(pageIndex, rect, imageDataUrl)
                 THEN nextId + 1 ELSE nextId

ExportNext ==
    \/ \E f \in ExportDocs : CallLoadFile(f)
    \/ \E pageIndex \in ExportPages, rect \in ExportRects, url \in ExportPayloads :
          CallAddForExport(pageIndex, rect, url)
    \/ \E version \in ExportVersions, saveOk \in BOOLEAN, now \in Clock :
          ExportAll(version, saveOk, now)
ExportSpec == StoreInit /\ [][ExportNext]_vars

(***************************************************************************)
(* setCurrentSignature called with every kind of value, on a store that    *)
(* holds a document and placements.                                        *)
(***************************************************************************)
JpgURL == DataURL("image/jpg", TRUE, <<"/9j/">>)
SignatureValues == DataURLInputs \cup {JpgURL, NoSignature}

SignatureNext ==
    \/ \E f \in Docs : CallLoadFile(f)
    \/ \E d \in Docs : CallSetPages(d)
    \/ \E url \in ExportPayloads :
          CallAddForExport(Num(0), Rect(10 * PerCent, 20 * PerCent, 15 * PerCent, 5 * PerCent),
                           url)
    \/ \E d \in SignatureValues : CallSetCurrentSignature(d)
SignatureSpec == StoreInit /\ [][SignatureNext]_vars

(***************************************************************************)
(* exportAll as the asynchronous function it is: the call takes pdfFile    *)
(* and placements from the store and awaits exportSignedPdf; the store can *)
(* change before the export ends.  tasks holds the running exports.        *)
(***************************************************************************)
exportTask(s, version) ==
    [kind |-> "export", version |-> version, file |-> s.pdfFile,
     placements |-> s.placements]

\* exportAll is called: refused at once, or running
ExportStart(version) ==
    /\ Len(tasks) < MaxPending
    /\ IF store.pdfFile = NoFile \/ Len(store.placements) = 0
       THEN /\ tasks' = tasks
            /\ last' = exportAll(store, version, TRUE, 0)
       ELSE /\ tasks' = Append(tasks, exportTask(store, version))
            /\ last' = [op |-> "exportStart"]
    /\ UNCHANGED <<store, nextId, renders, wraps, overlay, selected, surface,
                   session, press, gest, panel>>

\* the export tasks[i] ends
ExportFinish(i, saveOk, now) ==
    /\ i \in 1..Len(tasks)
    /\ tasks[i].kind = "export"
    /\ store' = storeAfterExport(store)
    /\ tasks' = RemoveAt(tasks, i)
    /\ last' = exportReport(tasks[i].version, tasks[i].file, tasks[i].placements,
                            saveOk, now)
                 @@ [again |-> FALSE, retry |-> FALSE]
    /\ UNCHANGED <<nextId, renders, wraps, overlay, selected, surface,
                   session, press, gest, panel>>

PendingPayloads == {PngURL, WebpURL}

PendingNext ==
    \/ \E f \in ExportDocs : CallLoadFile(f)
    \/ CallClearAll
    \/ \E url \in PendingPayloads :
          CallAddForExport(Num(0), Rect(10 * PerCent, 20 * PerCent, 15 * PerCent, 5 * PerCent),
                           url)
    \/ \E version \in ExportVersions : ExportStart(version)
    \/ \E i \in 1..MaxPending, saveOk \in BOOLEAN, now \in Clock :
          ExportFinish(i, saveOk, now)
PendingSpec == StoreInit /\ [][PendingNext]_vars

(***************************************************************************)
(* The signature panel's upload.  The FileReader callback checks the data  *)
(* URL with the panel's own pattern (any image type), then awaits          *)
(* processBackground and hands the result to setCurrentSignature.  Without *)
(* background removal the promise is already resolved and the store call   *)
(* follows in the same task; with it the result arrives when the image has *)
(* loaded, and other handlers run in between.  A running computation is an *)
(* entry of tasks; its field superseded records, for the observer, that    *)
(* the store's signature was set or cleared after the computation began.   *)
(* removeBackground is the value the callback's closure holds, that of the *)
(* render in which the file was chosen.                                    *)
(***************************************************************************)
isValidDataURLPanel(dataUrl) ==
    /\ dataUrl.type \in {"image/png", "image/jpeg", "image/jpg", "image/webp", "image/gif"}
    /\ dataUrl.base64
    /\ Len(dataUrl.body) >= 1
    /\ \A i \in 1..Len(dataUrl.body) : dataUrl.body[i] \in Base64Chars

\* canvas.toDataURL('image/png') of the image with its background cut out
processBackground(imageDataUrl) ==
    DataURL("image/png", TRUE, <<"iVBOR">> \o imageDataUrl.body)

supersede(ts) ==
    [i \in 1..Len(ts) |->
        IF ts[i].kind = "process" THEN [ts[i] EXCEPT !.superseded = TRUE] ELSE ts[i]]

PanelCall(new, ts, op) ==
    /\ store' = new
    /\ tasks' = ts
    /\ last' = op
    /\ UNCHANGED <<renders, wraps, overlay, selected, surface, session, press, gest>>

\* onUpload's FileReader callback
UploadSignature(result, removeBackground) ==
    /\ Len(tasks) < MaxPending
    /\ IF ~isValidDataURLPanel(result)
       THEN /\ PanelCall(store, tasks, [op |-> "upload", alert |-> TRUE])
            /\ panel' = panel
       ELSE /\ panel' = [panel EXCEPT !.originalImageData = result]
            /\ IF ~removeBackground
               THEN PanelCall(setCurrentSignature(store, result), supersede(tasks),
                              [op |-> "upload", alert |-> FALSE])
               ELSE PanelCall(store,
                              Append(tasks, [kind |-> "process", original |-> result,
                                             superseded |-> FALSE]),
                              [op |-> "upload", alert |-> FALSE])
    /\ UNCHANGED nextId

\* processBackground settles: the awaiting callback goes on, or its catch
ProcessFinish(i, loaded) ==
    /\ i \in 1..Len(tasks)
    /\ tasks[i].kind = "process"
    /\ PanelCall(setCurrentSignature(store, IF loaded THEN processBackground(tasks[i].original)
                                                      ELSE tasks[i].original),
                 supersede(RemoveAt(tasks, i)),
                 [op |-> "processed", superseded |-> tasks[i].superseded,
                  original |-> tasks[i].original])
    /\ UNCHANGED <<nextId, panel>>

\* useThis: the drawn or typed signature, as the PNG of its canvas
useThis(url) ==
    /\ PanelCall(setCurrentSignature(store, url), supersede(tasks), [op |-> "use"])
    /\ UNCHANGED <<nextId, panel>>

\* the panel's Clear button
PanelClear ==
    /\ PanelCall(clearAllPlacements(store), supersede(tasks),
                 [op |-> "clear", had |-> Len(store.placements) > 0,
                  signed |-> store.currentSignature # NoSignature])
    /\ UNCHANGED <<nextId, panel>>

\* Clear All, pressed while a computation runs
PanelClearAll ==
    /\ PanelCall(clearAll(store), supersede(tasks), [op |-> "clearAll"])
    /\ UNCHANGED <<nextId, panel>>

UploadInputs == {JpegURL, GifURL, PlainPngURL}
PanelSignatures == {PngURL, FakePngURL}

PanelNext ==
    \/ \E f \in Docs : CallLoadFile(f)
    \/ \E result \in UploadInputs, removeBackground \in BOOLEAN :
          UploadSignature(result, removeBackground)
    \/ \E i \in 1..MaxPending, loaded \in BOOLEAN : ProcessFinish(i, loaded)
    \/ \E url \in PanelSignatures : useThis(url)
    \/ PanelClear
    \/ PanelClearAll
    \/ \E d \in Docs : CallSetPages(d)
    \/ CallAddForExport(Num(0), Rect(10 * PerCent, 20 * PerCent, 15 * PerCent, 5 * PerCent),
                        PngURL)
PanelSpec == StoreInit /\ [][PanelNext]_vars

(***************************************************************************)
(* The panel's settings.  Both handlers set the state and, when an upload  *)
(* is kept, start a timer that calls reprocessImage.  The timer's callback *)
(* calls the reprocessImage of the render in which the handler ran, whose  *)
(* closure holds that render's originalImageData, removeBackground and     *)
(* backgroundThreshold.  A started timer is an entry of tasks with these   *)
(* three values; its field chosen records, for the observer, the settings  *)
(* the handler chose.                                                      *)
(***************************************************************************)
reprocessTimer(chosen) ==
    [kind |-> "timer", originalImageData |-> panel.originalImageData,
     removeBackground |-> panel.removeBackground,
     backgroundThreshold |-> panel.backgroundThreshold,
     chosen |-> [removeBackground |-> chosen.removeBackground,
                 backgroundThreshold |-> chosen.backgroundThreshold]]

\* the checkbox changes: a controlled checkbox reports the opposite of its prop
handleBackgroundToggle(enabled) ==
    /\ Len(tasks) < MaxPending
    /\ enabled # panel.removeBackground
    /\ panel' = [panel EXCEPT !.removeBackground = enabled]
    /\ tasks' = IF panel.originalImageData # NoSignature
                THEN Append(tasks, reprocessTimer(panel'))
                ELSE tasks
    /\ last' = [op |-> "toggle", enabled |-> enabled]
    /\ UNCHANGED <<store, nextId, renders, wraps, overlay, selected, surface, session,
                   press, gest>>

\* the slider, rendered while the removal is on, changes
handleThresholdChange(newThreshold) ==
    /\ Len(tasks) < MaxPending
    /\ panel.removeBackground
    /\ newThreshold # panel.backgroundThreshold
    /\ panel' = [panel EXCEPT !.backgroundThreshold = newThreshold]
    /\ tasks' = IF panel.originalImageData # NoSignature /\ panel.removeBackground
                THEN Append(tasks, reprocessTimer(panel'))
                ELSE tasks
    /\ last' = [op |-> "threshold", newThreshold |-> newThreshold]
    /\ UNCHANGED <<store, nextId, renders, wraps, overlay, selected, surface, session,
                   press, gest>>

\* the timer tasks[i] fires: reprocessImage of the handler's render
reprocessImage(i) ==
    /\ i \in 1..Len(tasks)
    /\ tasks[i].kind = "timer"
    /\ IF tasks[i].originalImageData = NoSignature
       THEN PanelCall(store, RemoveAt(tasks, i), [op |-> "reprocess", ran |-> FALSE])
       ELSE LET op == [op |-> "reprocess", ran |-> TRUE,
                       shouldRemove |-> tasks[i].removeBackground,
                       threshold |-> tasks[i].backgroundThreshold,
                       chosen |-> tasks[i].chosen]
            IN IF ~tasks[i].removeBackground
               THEN PanelCall(setCurrentSignature(store, tasks[i].originalImageData),
                              supersede(RemoveAt(tasks, i)), op)
               ELSE PanelCall(store,
                              [tasks EXCEPT ![i] =
                                  [kind |-> "process",
                                   original |-> tasks[i].originalImageData,
                                   superseded |-> FALSE]],
                              op)
    /\ UNCHANGED <<nextId, panel>>

SliderValues == {100, 230, 250}

SettingsNext ==
    \/ \E result \in UploadInputs, removeBackground \in BOOLEAN :
          UploadSignature(result, removeBackground)
    \/ \E i \in 1..MaxPending, loaded \in BOOLEAN : ProcessFinish(i, loaded)
    \/ \E enabled \in BOOLEAN : handleBackgroundToggle(enabled)
    \/ \E newThreshold \in SliderValues : handleThresholdChange(newThreshold)
    \/ \E i \in 1..MaxPending : reprocessImage(i)
SettingsSpec == StoreInit /\ [][SettingsNext]_vars

(***************************************************************************)
(* The viewer given documents that rasterize and one that does not (a      *)
(* file with the PDF header and a malformed body passes the upload's       *)
(* checks and reaches loadFile).                                           *)
(***************************************************************************)
RenderNext ==
    \/ \E f \in ExportDocs : LoadFile(f)
    \/ ClearSession
    \/ \E d \in ListSignatures : SetSignature(d)
    \/ \E i \in 1..MaxPending : RenderComplete(i)
    \/ \E i \in 1..MaxPending : RenderFails(i)
    \/ \E k \in 0..1, pt \in PlacePoints : PlaceGesture(k, pt, MaxEdits)
RenderSpec == ListInit /\ [][RenderNext]_vars

(***************************************************************************)
(* The name of the download.  A file name is a sequence of characters; the *)
(* characters used are a letter ("a", "b"), the underscore, a blank (for   *)
(* whitespace), "/" (for the characters of the first pattern), the dot and *)
(* the letters of the extension in both cases.  Long names are a run of    *)
(* "a" followed by a short tail.                                           *)
(***************************************************************************)
MaxTail == 3         \* characters that follow the run of "a" in a file name
maxLength == 100

\* every run of c becomes one c
squeeze(str, c) ==
    LET keep == {i \in 1..Len(str) : ~(str[i] = c /\ i > 1 /\ str[i - 1] = c)}
        rank == [i \in 1..Len(str) |-> Cardinality({j \in keep : j <= i})]
    IN [k \in 1..Cardinality(keep) |-> str[CHOOSE i \in keep : rank[i] = k]]

replaceChar(str, from, to) ==
    [i \in 1..Len(str) |-> IF str[i] \in from THEN to ELSE str[i]]

dropLeading(str, c) ==
    LET others == {i \in 1..Len(str) : str[i] # c}
    IN IF others = {} THEN <<>>
       ELSE SubSeq(str, CHOOSE i \in others : \A j \in others : i <= j, Len(str))

dropTrailing(str, c) ==
    LET others == {i \in 1..Len(str) : str[i] # c}
    IN IF others = {} THEN <<>>
       ELSE SubSeq(str, 1, CHOOSE i \in others : \A j \in others : i >= j)

substring(str, n) == SubSeq(str, 1, IF Len(str) < n THEN Len(str) ELSE n)

documentName == <<"d", "o", "c", "u", "m", "e", "n", "t">>
signedSuffix == <<"-", "s", "i", "g", "n", "e", "d", ".", "p", "d", "f">>

sanitizeFilename(filename) ==
    LET invalid == replaceChar(filename, {"/"}, "_")
        spaces == replaceChar(squeeze(invalid, " "), {" "}, "_")
        single == squeeze(spaces, "_")
        trimmed == dropTrailing(dropLeading(single, "_"), "_")
        cut == substring(trimmed, maxLength)
    IN IF cut = <<>> THEN documentName ELSE cut

\* file.name.replace(/\.pdf$/i, '') || 'document'
originalName(name) ==
    LET n == Len(name)
        ext == n >= 4 /\ name[n - 3] = "." /\ name[n - 2] \in {"p", "P"}
                      /\ name[n - 1] \in {"d", "D"} /\ name[n] \in {"f", "F"}
        base == IF ext THEN SubSeq(name, 1, n - 4) ELSE name
    IN IF base = <<>> THEN documentName ELSE base

downloadName(name) == sanitizeFilename(originalName(name)) \o signedSuffix

repeat(c, n) == [i \in 1..n |-> c]

NameChars == {"b", "_", " ", "/"}
NameTails == UNION {[1..n -> NameChars] : n \in 0..MaxTail}
NameRuns == {0, maxLength - 1, maxLength}
NameExtensions == {<<>>, <<".", "p", "d", "f">>, <<".", "P", "D", "F">>}
FileNames == {repeat("a", n) \o tail \o ext :
                 n \in NameRuns, tail \in NameTails, ext \in NameExtensions}

NameInit ==
    /\ store = InitStore
    /\ nextId = 1
    /\ renders = <<>>
    /\ wraps = NoWraps
    /\ overlay = NoOverlay
    /\ selected = {}
    /\ surface = InitSurface
    /\ session = NoSession
    /\ press = NoPress
    /\ gest = IdleGest
    /\ tasks = <<>>
    /\ panel = InitPanel
    /\ last \in {[op |-> "name", name |-> name] : name \in FileNames}

\* the anchor of the export gets its download attribute
SetDownloadName ==
    /\ last.op = "name"
    /\ last' = [op |-> "download", name |-> last.name,
                base |-> sanitizeFilename(originalName(last.name)),
                download |-> downloadName(last.name)]
    /\ UNCHANGED <<store, nextId, renders, wraps, overlay, selected, surface, session,
                   press, gest, tasks, panel>>

NameNext == SetDownloadName
NameSpec == NameInit /\ [][NameNext]_vars

(***************************************************************************)
(* The pixels of processBackground.  The image is drawn on a canvas and    *)
(* read back as RGBA bytes; data[i] is the pixel at index i, row by row.   *)
(* Three passes write the alpha byte of the pixels; the canvas is then     *)
(* encoded as a PNG.  Brightness is kept in thousandths.                   *)
(***************************************************************************)
Pixel(r, g, b, a) == [r |-> r, g |-> g, b |-> b, a |-> a]

brightness(p) == 299 * p.r + 587 * p.g + 114 * p.b

\* the indexes sampled on the four edges, every fourth column and row
edgePixels(width, height) ==
    LET xs == {x \in 0..(width - 1) : x % 4 = 0}
        ys == {y \in 0..(height - 1) : y % 4 = 0}
    IN [top |-> {x : x \in xs},
        bottom |-> {(height - 1) * width + x : x \in xs},
        left |-> {y * width : y \in ys},
        right |-> {y * width + width - 1 : y \in ys}]

RECURSIVE sumChannel(_, _, _)
sumChannel(data, idxs, c) ==
    IF idxs = {} THEN 0
    ELSE LET i == CHOOSE j \in idxs : TRUE
         IN data[i][c] + sumChannel(data, idxs \ {i}, c)

\* Math.round of the mean of the sampled pixels, white when there is none
dominantBgColor(data, width, height) ==
    LET e == edgePixels(width, height)
        n == Cardinality(e.top) + Cardinality(e.bottom)
             + Cardinality(e.left) + Cardinality(e.right)
        total(c) == sumChannel(data, e.top, c) + sumChannel(data, e.bottom, c)
                    + sumChannel(data, e.left, c) + sumChannel(data, e.right, c)
        round(c) == (2 * total(c) + n) \div (2 * n)
    IN IF n = 0 THEN [r |-> 255, g |-> 255, b |-> 255]
       ELSE [r |-> round("r"), g |-> round("g"), b |-> round("b")]

\* Method 1: pixels close to the background colour
method1(p, bg, threshold) ==
    LET maxDistance == (255 - threshold) * 2
        squared == (p.r - bg.r) * (p.r - bg.r) + (p.g - bg.g) * (p.g - bg.g)
                   + (p.b - bg.b) * (p.b - bg.b)
    IN IF maxDistance > 0 /\ squared < maxDistance * maxDistance
       THEN [p EXCEPT !.a = 0] ELSE p

\* Method 2: bright neutral pixels
method2(p, bg, threshold) ==
    LET adaptiveThreshold == Max(1000 * threshold, brightness(bg) - 20 * 1000)
        isNeutral == Abs(p.r - p.g) < 40 /\ Abs(p.g - p.b) < 40 /\ Abs(p.r - p.b) < 40
    IN IF p.a # 0 /\ brightness(p) > adaptiveThreshold /\ isNeutral
       THEN [p EXCEPT !.a = 0] ELSE p

\* Method 3: bright pixels of the interior, by their dark neighbours
method3(data, i, width, height, threshold) ==
    LET x == i % width
        y == i \div width
        p == data[i]
        darkNeighbors ==
            Cardinality({d \in ({0 - 1, 0, 1} \X {0 - 1, 0, 1}) \ {<<0, 0>>} :
                brightness(data[(y + d[2]) * width + (x + d[1])]) < 1000 * (threshold - 50)})
    IN IF x < 1 \/ x >= width - 1 \/ y < 1 \/ y >= height - 1 THEN p
       ELSE IF p.a = 0 THEN p
       ELSE IF brightness(p) > 1000 * (threshold - 20)
       THEN IF darkNeighbors < 2 THEN [p EXCEPT !.a = 0]
            ELSE IF darkNeighbors < 4 THEN [p EXCEPT !.a = Max(100, p.a - 50)]
            ELSE p
       ELSE p

\* the image data put back on the canvas by img.onload
processPixels(image, threshold) ==
    LET bg == dominantBgColor(image.data, image.width, image.height)
        one == [i \in DOMAIN image.data |-> method1(image.data[i], bg, threshold)]
        two == [i \in DOMAIN one |-> method2(one[i], bg, threshold)]
        three == [i \in DOMAIN two |->
                     method3(two, i, image.width, image.height, threshold)]
    IN [image EXCEPT !.data = three]

White == Pixel(255, 255, 255, 255)
Black == Pixel(0, 0, 0, 255)
Yellow == Pixel(255, 255, 0, 255)
Faint == Pixel(255, 255, 0, 50)
Ink == {White, Black}
\* three by three: the corners alike, the sides free, any pixel in the middle
PixelImages ==
    {[width |-> 3, height |-> 3,
      data |-> [i \in 0..8 |-> IF i = 4 THEN mid
                               ELSE IF i \in {0, 2, 6, 8} THEN corner
                               ELSE side[i]]] :
        corner \in Ink, mid \in {White, Black, Yellow, Faint},
        side \in [{1, 3, 5, 7} -> Ink]}
Thresholds == {100, 230, 250}

PixelInit ==
    /\ store = InitStore
    /\ nextId = 1
    /\ renders = <<>>
    /\ wraps = NoWraps
    /\ overlay = NoOverlay
    /\ selected = {}
    /\ surface = InitSurface
    /\ session = NoSession
    /\ press = NoPress
    /\ gest = IdleGest
    /\ tasks = <<>>
    /\ panel = InitPanel
    /\ last \in {[op |-> "image", image |-> image, threshold |-> threshold] :
                    image \in PixelImages, threshold \in Thresholds}

\* img.onload of processBackground
ImageLoaded ==
    /\ last.op = "image"
    /\ last' = [op |-> "pixels", image |-> last.image, threshold |-> last.threshold,
                out |-> processPixels(last.image, last.threshold)]
    /\ UNCHANGED <<store, nextId, renders, wraps, overlay, selected, surface, session,
                   press, gest, tasks, panel>>

PixelNext == ImageLoaded
PixelSpec == PixelInit /\ [][PixelNext]_vars

TypeOK ==
    /\ overlay.ids \subseteq Ids(store.placements)
    /\ selected \subseteq overlay.ids
    /\ (gest.phase = "idle" => session = NoSession /\ press = NoPress)

(***************************************************************************)
(* Properties.                                                             *)
(***************************************************************************)
Placements == {store.placements[i] : i \in 1..Len(store.placements)}

\* C1: addPlacement called with a rect that violates the NormalizedRect
\* invariant adds nothing: the placement list after the call is the list
\* before it.  (StoreSpec)
C1_AddRejectsInvalidRect ==
    [][(last'.op = "addPlacement" /\ ~last'.rectValid)
          => store'.placements = store.placements]_vars

\* C2: updatePlacement called for an existing id with a rect that violates
\* the NormalizedRect invariant leaves that placement's rect as it was.
\* (StoreSpec)
C2_UpdateRejectsInvalidRect ==
    [][(last'.op = "updatePlacement" /\ last'.had /\ ~last'.rectValid)
          => PlacementOf(store', last'.id).rect = PlacementOf(store, last'.id).rect]_vars

\* C3: in every state reachable by place, drag, resize, delete, clear and
\* load gestures, on every display surface, every placement of the store
\* satisfies 0 <= x, 0 <= y, w > 0, h > 0, x + w <= 100, y + h <= 100.
\* (Spec)
C3_StoredRectsValid == \A p \in Placements : ValidRect(p.rect)

\* C4: addPlacement called with a pageIndex that addresses no page of the
\* loaded document (negative, not an integer, or >= the page count) leaves
\* the placement list unchanged.  (StoreSpec)
C4_AddRejectsMissingPage ==
    [][(last'.op = "addPlacement" /\ ~last'.pageExists)
          => store'.placements = store.placements]_vars

\* C5: addPlacement called with an image payload that is not a well-formed
\* PNG or JPEG payload leaves the placement list unchanged, and so every
\* placement of the store carries a payload that export can embed.
\* (StoreSpec)
C5_AddRejectsUnacceptedImage ==
    /\ [][(last'.op = "addPlacement" /\ ~last'.imageAccepted)
            => store'.placements = store.placements]_vars
    /\ [](\A p \in Placements : AcceptedPayload(p.imageDataUrl))

\* C6: after loadFile the placement list is empty, whatever it held before.
\* (ListSpec)
C6_LoadFileClearsPlacements ==
    last.op = "loadFile" => store.placements = <<>>

C6_Witness ==
    last.op = "loadFile" /\ last.had /\ store.placements = <<>>

\* C7: a delete gesture (key, context menu or long press) answered "no"
\* leaves the placement list unchanged; answered "yes" it removes exactly
\* the placement with the gesture's id, the others staying as they were and
\* in the same order.  (ListSpec)
RemovedOnly(old, new, id) ==
    IF id \in Ids(old)
    THEN \E i \in 1..Len(old) :
            /\ old[i].id = id
            /\ new = SubSeq(old, 1, i - 1) \o SubSeq(old, i + 1, Len(old))
    ELSE new = old

C7_DeleteConfirmation ==
    [][last'.op = "delete"
          => IF last'.confirmed
             THEN RemovedOnly(store.placements, store'.placements, last'.id)
             ELSE store'.placements = store.placements]_vars

C7_Witness ==
    /\ last.op = "delete" /\ last.confirmed /\ last.had
    /\ Len(store.placements) = 1
    /\ last.id = 2

\* C8: a single-pointer gesture on a selected placement whose samples all
\* stay within the drag threshold of the gesture's start point issues no
\* update call.  (Spec)
C8_BelowThresholdNoUpdate ==
    (gest.phase = "down" /\ gest.wasSelected /\ gest.within) => gest.updates = 0

\* C9: a single-pointer gesture (mouse or one finger) that starts on the
\* body of a selected placement, outside the handle hit zone, and moves 8
\* pixels from its start point has issued an update call when it is
\* released.  (Spec)
C9_EightUnitsUpdates ==
    [][(gest.phase = "down" /\ gest'.phase = "idle" /\ gest.target = "body"
        /\ ~gest.inZone /\ gest.wasSelected /\ gest.reach8)
          => gest.updates >= 1]_vars

\* C10: at most one placement is selected, and a select gesture on a
\* placement leaves exactly that placement selected.  (ListSpec)
C10_SingleSelection ==
    /\ Cardinality(selected) <= 1
    /\ last.op = "select" => selected = {last.id}

C10_Witness ==
    /\ last.op = "select"
    /\ last.before # {}
    /\ last.id \notin last.before
    /\ selected = {last.id}

\* C11: when a drag or resize gesture that issued at least one update ends
\* with the release of the pointer, its placement (still in the store) is
\* selected.  (Spec)
C11_ReleaseKeepsSelection ==
    [][(gest.phase = "down" /\ gest'.phase = "idle" /\ gest.updates >= 1
        /\ gest.id \in Ids(store'.placements))
          => gest.id \in selected']_vars
\* C12: once a second finger has gone down on a placement whose one-finger
\* drag is in flight, no update that changes the placement's x or y is
\* issued while the two fingers are down.  (PinchSpec)
C12_PinchCancelsDrag ==
    [][last'.op = "pinch" => ~last'.moved]_vars

\* C13: every rect a handle-resize session passes to updatePlacement, when
\* the session started from a valid rect, keeps the x and y of the start
\* rect, has w >= 5 and h >= 3, and has x + w <= 100 and y + h <= 100.
\* (Spec)
C13_ResizeRectWithinBounds ==
    [][(/\ last'.op = "update" /\ last'.by = "resize"
        /\ last'.id \in Ids(store'.placements)
        /\ ValidRect(session.startRect))
          => LET r == PlacementOf(store', last'.id).rect
                 s == session.startRect
             IN /\ r.x = s.x /\ r.y = s.y
                /\ r.w >= minW /\ r.h >= minH
                /\ r.x + r.w <= Full /\ r.y + r.h <= Full]_vars

\* C14: a place gesture on page k made while the store holds a current
\* signature appends exactly one placement, with pageIndex k and with the
\* store's current signature as its image payload, and leaves the
\* placements that existed as they were.  (Spec)
C14_PlaceAddsOne ==
    [][(last'.op \in {"place", "deselect"} /\ store.currentSignature # NoSignature)
          => /\ Len(store'.placements) = Len(store.placements) + 1
             /\ SubSeq(store'.placements, 1, Len(store.placements)) = store.placements
             /\ store'.placements[Len(store'.placements)].pageIndex = Num(last'.page)
             /\ store'.placements[Len(store'.placements)].imageDataUrl
                  = store.currentSignature]_vars

\* C15: a place gesture made while the store holds no current signature
\* leaves the placement list as it was and leaves no placement selected.
\* (Spec)
C15_PlaceWithoutSignature ==
    [][(last'.op \in {"place", "deselect"} /\ store.currentSignature = NoSignature)
          => store'.placements = store.placements /\ selected' = {}]_vars

\* C16: the rect a place gesture computes, at whatever point of the page,
\* has x >= 0, y >= 0, x + w <= 100 and y + h <= 100; a gesture at the
\* top-left corner (0, 0) of the page gives x = 0 and y = 0.  (Spec)
C16_PlaceRectWithinPage ==
    [][last'.op = "place"
          => /\ last'.rect.x >= 0 /\ last'.rect.y >= 0
             /\ last'.rect.x + last'.rect.w <= Full
             /\ last'.rect.y + last'.rect.h <= Full
             /\ last'.corner => last'.rect.x = 0 /\ last'.rect.y = 0]_vars

DistinctPayloads(pl) == {pl[i].imageDataUrl : i \in 1..Len(pl)}

\* C17: an export that runs through all its placements embeds as many
\* images as there are distinct payloads among the placements and draws as
\* many as there are placements; an export that stops early embeds no
\* payload twice.  So two placements with the same payload on different
\* pages give one embed and two draws.  (ExportSpec)
C17_EmbedOncePerPayload ==
    (last.op = "exportAll" /\ last.outcome # "refused")
      => /\ last.cause \in {"none", "save"}
              => /\ last.embeds = Cardinality(DistinctPayloads(store.placements))
                 /\ Len(last.drawn) = Len(store.placements)
         /\ last.embeds <= Cardinality(DistinctPayloads(store.placements))
         /\ last.embeds <= Len(last.drawn)

C17_Witness ==
    /\ last.op = "exportAll" /\ last.outcome = "done"
    /\ Len(store.placements) = 2
    /\ store.placements[1].imageDataUrl = store.placements[2].imageDataUrl
    /\ store.placements[1].pageIndex # store.placements[2].pageIndex
    /\ last.embeds = 1
    /\ Len(last.drawn) = 2

\* C18: every draw of an export is made at nativeX = (x/100)*pageWidth,
\* nativeW = (w/100)*pageWidth, nativeH = (h/100)*pageHeight and
\* nativeY = pageHeight - ((y+h)/100)*pageHeight; the rect {10, 20, 15, 5}
\* on a 612 x 792 page is drawn at x = 61.2, y = 594.0, w = 91.8, h = 39.6.
\* (ExportSpec)
C18_DrawsAtNativeRect ==
    (last.op = "exportAll" /\ last.outcome # "refused")
      => \A i \in 1..Len(last.drawn) :
            LET r == store.placements[i].rect
                size == getSize(store.pdfFile, store.placements[i].pageIndex)
                d == last.drawn[i].rect
            IN /\ d.x * (Full \div Milli) = r.x * size.width
               /\ d.width * (Full \div Milli) = r.w * size.width
               /\ d.height * (Full \div Milli) = r.h * size.height
               /\ (size.height * Milli - d.y) * (Full \div Milli)
                    = (r.y + r.h) * size.height
               /\ (/\ r = Rect(10 * PerCent, 20 * PerCent, 15 * PerCent, 5 * PerCent)
                   /\ size = [width |-> LetterWidth, height |-> LetterHeight])
                     => d = [x |-> 61200, y |-> 594000, width |-> 91800, height |-> 39600]

\* C19: an export in which a step fails (loading the source, finding a
\* page, embedding an image, serializing) fails as a whole and triggers no
\* download.  (ExportSpec)
C19_FailedExportDeliversNothing ==
    (last.op = "exportAll" /\ last.outcome # "refused" /\ last.cause # "none")
      => /\ last.outcome = "failed"
         /\ last.thrown # "none"
         /\ ~last.downloaded

\* an export that fails after it has embedded and drawn a first placement
C19_Witness ==
    /\ last.op = "exportAll" /\ last.outcome = "failed"
    /\ last.cause \in {"page", "embed"}
    /\ Len(last.drawn) >= 1
    /\ ~last.downloaded

\* C20: an export of a list with a placement whose pageIndex addresses no
\* page of the source fails with an error that differs from the error of a
\* corrupt source and from the error of an image that cannot be embedded.
\* (ExportSpec)
C20_PageOutOfRangeDistinct ==
    (last.op = "exportAll" /\ last.outcome # "refused" /\ last.cause = "page")
      => /\ last.outcome = "failed"
         /\ last.thrown # thrown(last.version, "load")
         /\ last.thrown # thrown(last.version, "embed")

C22_ExportLeavesStore ==
    [][last'.op = "exportAll"
          => /\ store'.pdfFile = store.pdfFile
             /\ store'.placements = store.placements
             /\ store'.currentSignature = store.currentSignature
             /\ (last'.outcome # "refused" /\ last'.retry)
                   => last'.file = last.file /\ last'.placements = last.placements]_vars

\* an export retried after a failed one, over a list that is not empty
C22_Witness ==
    /\ last.op = "exportAll" /\ last.retry
    /\ last.outcome = "done"
    /\ store.placements # <<>>
    /\ last.placements = store.placements

\* C23: an export that was running when the document was switched or the
\* session cleared (the store's document is no longer the one the export
\* was started on) delivers no output.  (PendingSpec)
C23_SwitchInvalidatesExport ==
    [][(last'.op = "exportAll" /\ last'.outcome # "refused"
        /\ last'.file # store.pdfFile)
          => ~last'.downloaded]_vars

\* C24: once the document was switched or the session cleared while a drag,
\* resize or pinch session was in flight, no later pointer event of that
\* gesture changes the placement list, which stays empty until a place
\* gesture is made.  (SwitchSpec)
C24_SwitchEndsSessions ==
    [][(gest.phase = "down" /\ gest.switched /\ last'.op # "place")
          => store'.placements = <<>>]_vars

\* a drag, resize or pinch move delivered after the switch
C24_Witness ==
    /\ gest.phase = "down" /\ gest.switched
    /\ last.op \in {"update", "pinch"}
    /\ store.placements = <<>>

\* C25: a background-removal computation that completes after the current
\* signature was replaced or cleared is discarded: the current signature
\* keeps the later value.  (PanelSpec)
C25_StaleProcessingDiscarded ==
    [][(last'.op = "processed" /\ last'.superseded)
          => store'.currentSignature = store.currentSignature]_vars

\* C26: setCurrentSignature, called with any value, changes no placement of
\* the store: image payload, rect, page and id of each stay as they were.
\* (StoreSpec)
C26_SignatureKeepsPlacements ==
    [][last'.op = "setCurrentSignature" => store'.placements = store.placements]_vars

\* the signature was replaced by another one than the placed image
C26_Witness ==
    /\ last.op = "setCurrentSignature"
    /\ last.d # NoSignature /\ store.currentSignature = last.d
    /\ Len(store.placements) > 0
    /\ store.placements[1].imageDataUrl # store.currentSignature

\* C27: in every state the ids of the placements are pairwise distinct, and
\* a step that adds a placement gives it an id that no placement of the
\* list held before the step.  (ListSpec)
C27_IdsDistinct ==
    [][/\ \A i, j \in 1..Len(store'.placements) :
            store'.placements[i].id = store'.placements[j].id => i = j
       /\ Len(store'.placements) = Len(store.placements) + 1
            => store'.placements[Len(store'.placements)].id \notin Ids(store.placements)]_vars

\* a placement added next to another one after an earlier one was removed
C27_Witness ==
    /\ last.op = "place" /\ last.accepted
    /\ Len(store.placements) = 2
    /\ nextId > 3

\* C28: when the rasterization of a loaded document fails, the failure is
\* surfaced as an error and the session is not left as a loaded document
\* with zero pages.  (RenderSpec)
C28_RenderFailureSurfaced ==
    [][last'.op = "renderFailed"
          => (last'.alert \/ ~(store'.hasDoc /\ store'.pages.n = 0))]_vars

C30_UpdateChangesOnlyRect ==
    [][/\ last'.op = "update" =>
            /\ Len(store'.placements) = Len(store.placements)
            /\ \A i \in 1..Len(store.placements) :
                  /\ store'.placements[i]
                        = [store.placements[i] EXCEPT !.rect = store'.placements[i].rect]
                  /\ store.placements[i].id # last'.id
                        => store'.placements[i] = store.placements[i]
            /\ store'.currentSignature = store.currentSignature
       /\ (last'.op = "delete" /\ last'.confirmed /\ ~last'.had)
            => store'.placements = store.placements
       /\ (gest.phase = "down" /\ gest'.phase = "down" /\ gest'.switched = gest.switched
              /\ session.kind = "none" /\ session'.kind = "none"
              /\ last'.op \notin {"delete", "loadFile"})
            => store'.placements = store.placements]_vars

\* a drag has updated the second of two placements, which lies elsewhere
\* than the first
C30_Witness ==
    /\ last.op = "update" /\ last.id = 2
    /\ Len(store.placements) = 2
    /\ store.placements[2].id = 2
    /\ store.placements[2].rect.y # store.placements[1].rect.y

\* C31: every rect a move-drag session passes to updatePlacement has the w
\* and h of the rect at drag start, x = clamp(start x + dx%, 0, 100 - w) and
\* y = clamp(start y + dy%, 0, 100 - h), where dx% and dy% are the pointer's
\* displacement from the start point in percent of the page surface's
\* current size.  (Spec)
C31_DragRectFromStart ==
    [][(/\ last'.op = "update" /\ last'.by = "drag"
        /\ last'.id \in Ids(store'.placements)
        /\ ValidRect(session'.startRect))
          => LET r == PlacementOf(store', last'.id).rect
                 s == session'.startRect
                 dx == ToPercent(last'.moveX - session'.startX, surface.width)
                 dy == ToPercent(last'.moveY - session'.startY, surface.height)
             IN /\ r.w = s.w /\ r.h = s.h
                /\ r.x = Max(0, Min(s.x + dx, Full - s.w))
                /\ r.y = Max(0, Min(s.y + dy, Full - s.h))]_vars

\* C32: the name of the download is the sanitized base name of the source
\* followed by "-signed.pdf"; the sanitized base is not empty, has at most
\* 100 characters, holds no unsafe character and no whitespace, holds no
\* two underscores in a row, and neither begins nor ends with an
\* underscore.  (NameSpec)
C32_DownloadNameSanitized ==
    last.op = "download" =>
        LET b == last.base
        IN /\ last.download = b \o signedSuffix
           /\ Len(b) >= 1 /\ Len(b) <= maxLength
           /\ \A i \in 1..Len(b) : b[i] \notin {"/", " "}
           /\ \A i \in 1..(Len(b) - 1) : ~(b[i] = "_" /\ b[i + 1] = "_")
           /\ b[1] # "_" /\ b[Len(b)] # "_"

\* C33: when no page render is in flight, the pages the store holds and the
\* pages the viewer shows are those of the loaded document, and there are
\* none when no document is loaded.  (Spec)
C33_PagesOfLoadedDocument ==
    renders = <<>> => (store.pages.doc = store.pdfFile /\ wraps.doc = store.pdfFile)

\* C34: when the last page render in flight completes and shows the loaded
\* document, the overlays on screen are those of the placements the store
\* holds: the set of overlay ids equals the set of placement ids.  (Spec)
C34_OverlaysAfterRender ==
    [][(Len(renders') < Len(renders) /\ renders' = <<>>
        /\ store'.pdfFile # NoFile /\ wraps'.doc = store'.pdfFile)
          => overlay'.ids = Ids(store'.placements)]_vars

C36_ClearFrames ==
    [][/\ last'.op = "clear" =>
            store' = [store EXCEPT !.placements = <<>>, !.currentSignature = NoSignature]
       /\ last'.op = "clearAll" => store' = InitStore]_vars

\* Clear pressed with a signature, a placement, and a rendered document
C36_Witness ==
    /\ last.op = "clear" /\ last.had /\ last.signed
    /\ store.pdfFile # NoFile /\ store.hasDoc /\ store.pages.n > 0
    /\ store.placements = <<>> /\ store.currentSignature = NoSignature

\* C37: the re-processing that a change of the threshold or of the removal
\* toggle schedules runs with the settings that change chose: its threshold
\* and its toggle are the newly chosen ones.  (SettingsSpec)
C37_ReprocessUsesChosen ==
    [][(last'.op = "reprocess" /\ last'.ran)
          => /\ last'.shouldRemove = last'.chosen.removeBackground
             /\ last'.threshold = last'.chosen.backgroundThreshold]_vars

\* C38: the background removal raises the alpha of no pixel and changes no
\* colour: every pixel of the output has the red, green and blue of the
\* input pixel and an alpha not above the input's.  (PixelSpec)
C38_AlphaNeverRaised ==
    last.op = "pixels" =>
        \A i \in DOMAIN last.image.data :
            LET in == last.image.data[i]
                out == last.out.data[i]
            IN /\ out.r = in.r /\ out.g = in.g /\ out.b = in.b
               /\ out.a <= in.a

\* C39: exportAll runs the export pipeline exactly when a document is loaded
\* and the placement list is not empty; in every other case it runs no
\* export and leaves the store as it was.  (ExportSpec)
C39_ExportGuarded ==
    [][last'.op = "exportAll"
          => /\ last'.outcome # "refused"
                   <=> (store.pdfFile # NoFile /\ Len(store.placements) > 0)
             /\ last'.outcome = "refused" => store' = store]_vars

\* exportAll was refused on a store that holds placements and no document
C39_Witness ==
    /\ last.op = "exportAll" /\ last.outcome = "refused"
    /\ store.pdfFile = NoFile
    /\ Len(store.placements) > 0

====
